---- MODULE Spec2Model ----
(***************************************************************************)
(* Course time-conflict detection and the enrollment workflows of the      *)
(* retake-apply system.                                                    *)
(*                                                                         *)
(*   SpecSlots    CourseTimeSlot.overlaps_with applied to two validated    *)
(*                time slots                                               *)
(*   SpecChecker  check_course_conflict applied to a candidate course, an  *)
(*                enrolled list and a term                                 *)
(*   Spec         the enrollment workflows (handle_select_course,          *)
(*                handle_manual_enroll_submit) over the stored courses,    *)
(*                enrollments and academic year settings                   *)
(*                                                                         *)
(* Python strings that the code slices (the HH:MM fields) are tuples of    *)
(* one-character strings; Optional values are <<>> (None) or <<v>>.        *)
(***************************************************************************)
EXTENDS Integers, Sequences, FiniteSets, TLC

VARIABLES
    slot_a, slot_b, overlap_result,
    selected_course, enrolled_courses, current_term, conflict_reason,
    courses, enrollments, settings, now, session, last_call,
    requests,
    fields, constructed,
    user_groups, csv_file

slotVars == <<slot_a, slot_b, overlap_result>>
checkerVars == <<selected_course, enrolled_courses, current_term, conflict_reason>>
appVars == <<courses, enrollments, settings, now, session, last_call>>
raceVars == <<requests>>
ctorVars == <<fields, constructed>>
adminVars == <<user_groups, csv_file>>
vars == <<slot_a, slot_b, overlap_result,
          selected_course, enrolled_courses, current_term, conflict_reason,
          courses, enrollments, settings, now, session, last_call,
          requests,
          fields, constructed,
         user_groups, csv_file>>

(***************************************************************************)
(* Bounds of the model.                                                    *)
(***************************************************************************)
MaxWeek == 2
MaxDay == 2
MaxSlots == 2
MaxEnrolled == 2
MaxSettings == 2
MaxNow == 2
MaxRows == 3

(***************************************************************************)
(* Optional values and Python string primitives.                           *)
(***************************************************************************)
None == <<>>
Some(v) == <<v>>
ValueError == <<>>

Digits == <<"0", "1", "2", "3", "4", "5", "6", "7", "8", "9">>
IsDigit(c) == \E i \in 1..10 : Digits[i] = c
DigitVal(c) == (CHOOSE i \in 1..10 : Digits[i] = c) - 1
AllDigits(s) == Len(s) > 0 /\ \A i \in 1..Len(s) : IsDigit(s[i])

RECURSIVE DecVal(_)
DecVal(s) ==
    IF Len(s) = 0 THEN 0
    ELSE 10 * DecVal(SubSeq(s, 1, Len(s) - 1)) + DigitVal(s[Len(s)])

\* int(text) of a text over digits and ":" : the value, or ValueError.
py_int(s) == IF AllDigits(s) THEN Some(DecVal(s)) ELSE ValueError

\* text[:n] and text[n:] (n counted as in Python, from 0).
SliceTo(s, n) == IF Len(s) <= n THEN s ELSE SubSeq(s, 1, n)
SliceFrom(s, n) == IF Len(s) <= n THEN <<>> ELSE SubSeq(s, n + 1, Len(s))

\* datetime.strptime(value, "%H:%M"): <<hour, minute>>, or ValueError.
\* %H is one or two digits up to 23, %M one or two digits up to 59, and the
\* whole text must be consumed.
strptime_HM(s) ==
    LET colons == {k \in 1..Len(s) : s[k] = ":"}
    IN  IF Cardinality(colons) # 1 THEN ValueError
        ELSE LET k == CHOOSE c \in colons : TRUE
                 h == SliceTo(s, k - 1)
                 m == SliceFrom(s, k)
             IN  IF /\ AllDigits(h) /\ Len(h) <= 2 /\ DecVal(h) <= 23
                    /\ AllDigits(m) /\ Len(m) <= 2 /\ DecVal(m) <= 59
                 THEN <<DecVal(h), DecVal(m)>>
                 ELSE ValueError

(***************************************************************************)
(* CourseTimeSlot: fields, validators, overlaps_with.                      *)
(***************************************************************************)
VALID_PERIODS == {"D1", "D2", "D3", "D4", "D5", "D6", "D7", "D8", "D9", "DN"}

validate_period(value) == value \in VALID_PERIODS

validate_time_format(value) == strptime_HM(value) # ValueError

\* A variant of the constructor with a validator that wants start_time to be
\* before end_time:
CourseTimeSlot_ordered_times(s) ==
    /\ s.day_of_week >= 1 /\ s.day_of_week <= 7
    /\ validate_period(s.period)
    /\ validate_time_format(s.start_time)
    /\ validate_time_format(s.end_time)
    /\ LET st == strptime_HM(s.start_time)
           en == strptime_HM(s.end_time)
       IN  st[1] * 60 + st[2] < en[1] * 60 + en[2]

\* The field constraints of CourseTimeSlot: construction succeeds iff TRUE.
CourseTimeSlot(s) ==
    /\ s.day_of_week >= 1 /\ s.day_of_week <= 7
    /\ validate_period(s.period)
    /\ validate_time_format(s.start_time)
    /\ validate_time_format(s.end_time)

\* Inputs a caller may hand to the constructor.
T0800 == <<"0", "8", ":", "0", "0">>
T0830 == <<"0", "8", ":", "3", "0">>
T0900 == <<"0", "9", ":", "0", "0">>
T0930 == <<"0", "9", ":", "3", "0">>
T830 == <<"8", ":", "3", "0">>
T2400 == <<"2", "4", ":", "0", "0">>
T0860 == <<"0", "8", ":", "6", "0">>
TNoColon == <<"0", "8", "0", "0">>
TimeInputs == {T0800, T0830, T0900, T0930, T830, T2400, T0860, TNoColon}
PeriodInputs == {"D1", "DN", "D0"}
WeekInputs == {None} \cup {Some(w) : w \in 1..MaxWeek}
DayInputs == 0..MaxDay

RawSlots ==
    [week_number : WeekInputs, day_of_week : DayInputs, period : PeriodInputs,
     start_time : TimeInputs, end_time : TimeInputs]

\* The slots that exist: those the constructor accepted.
ValidSlots == {s \in RawSlots : CourseTimeSlot(s)}

\* int(t[:2]) * 60 + int(t[3:]), or ValueError when either int() raises.
to_minutes(t) ==
    LET hh == py_int(SliceTo(t, 2))
        mm == py_int(SliceFrom(t, 3))
    IN  IF hh = ValueError \/ mm = ValueError THEN ValueError
        ELSE Some(hh[1] * 60 + mm[1])

Max2(x, y) == IF x >= y THEN x ELSE y
Min2(x, y) == IF x <= y THEN x ELSE y

\* both week numbers present and different
WeeksExclude(self, other_slot) ==
    /\ self.week_number # None
    /\ other_slot.week_number # None
    /\ self.week_number # other_slot.week_number

\* a variant of the time rule whose except branch returns True
TimesOverlap_failure_counts_as_overlap(self, other_slot) ==
    LET s1 == to_minutes(self.start_time)
        e1 == to_minutes(self.end_time)
        s2 == to_minutes(other_slot.start_time)
        e2 == to_minutes(other_slot.end_time)
    IN  IF s1 = ValueError \/ e1 = ValueError \/ s2 = ValueError \/ e2 = ValueError
        THEN TRUE
        ELSE Max2(s1[1], s2[1]) < Min2(e1[1], e2[1])

\* the interval test on the converted times; False when a conversion fails
TimesOverlap(self, other_slot) ==
    LET s1 == to_minutes(self.start_time)
        e1 == to_minutes(self.end_time)
        s2 == to_minutes(other_slot.start_time)
        e2 == to_minutes(other_slot.end_time)
    IN  IF s1 = ValueError \/ e1 = ValueError \/ s2 = ValueError \/ e2 = ValueError
        THEN FALSE
        ELSE Max2(s1[1], s2[1]) < Min2(e1[1], e2[1])

\* Variants of overlaps_with, each with one rule of the code changed:
\* the day comparison left out
overlaps_with_no_day_check(self, other_slot) ==
    IF WeeksExclude(self, other_slot) THEN FALSE
    ELSE IF self.period = other_slot.period THEN TRUE
    ELSE TimesOverlap(self, other_slot)

\* the week comparison left out
overlaps_with_no_week_check(self, other_slot) ==
    IF self.day_of_week # other_slot.day_of_week THEN FALSE
    ELSE IF self.period = other_slot.period THEN TRUE
    ELSE TimesOverlap(self, other_slot)

\* week numbers compared without the two "is not None" guards
overlaps_with_strict_week(self, other_slot) ==
    IF self.day_of_week # other_slot.day_of_week THEN FALSE
    ELSE IF self.week_number # other_slot.week_number THEN FALSE
    ELSE IF self.period = other_slot.period THEN TRUE
    ELSE TimesOverlap(self, other_slot)

\* the period comparison left out: only the times decide
overlaps_with_no_period_rule(self, other_slot) ==
    IF self.day_of_week # other_slot.day_of_week THEN FALSE
    ELSE IF WeeksExclude(self, other_slot) THEN FALSE
    ELSE TimesOverlap(self, other_slot)

\* the interval test reduced to "self starts before the other ends"
overlaps_with_one_sided(self, other_slot) ==
    IF self.day_of_week # other_slot.day_of_week THEN FALSE
    ELSE IF WeeksExclude(self, other_slot) THEN FALSE
    ELSE IF self.period = other_slot.period THEN TRUE
    ELSE LET s1 == to_minutes(self.start_time)
             e2 == to_minutes(other_slot.end_time)
         IN  IF s1 = ValueError \/ e2 = ValueError THEN FALSE
             ELSE s1[1] < e2[1]

overlaps_with(self, other_slot) ==
    IF self.day_of_week # other_slot.day_of_week THEN FALSE
    ELSE IF WeeksExclude(self, other_slot) THEN FALSE
    ELSE IF self.period = other_slot.period THEN TRUE
    ELSE TimesOverlap(self, other_slot)

(***************************************************************************)
(* SpecSlots: overlaps_with applied to two constructed slots.              *)
(***************************************************************************)
Idle == "idle"

InitSlots ==
    /\ slot_a \in ValidSlots
    /\ slot_b \in ValidSlots
    /\ overlap_result = None
    /\ selected_course = Idle /\ enrolled_courses = Idle
    /\ current_term = Idle /\ conflict_reason = Idle
    /\ courses = Idle /\ enrollments = Idle /\ settings = Idle /\ now = Idle
    /\ session = Idle /\ last_call = Idle
    /\ requests = Idle /\ fields = Idle /\ constructed = Idle
    /\ user_groups = Idle /\ csv_file = Idle

CallOverlapsWith ==
    /\ overlap_result = None
    /\ overlap_result' = Some(overlaps_with(slot_a, slot_b))
    /\ UNCHANGED <<slot_a, slot_b>>
    /\ UNCHANGED checkerVars
    /\ UNCHANGED raceVars
    /\ UNCHANGED ctorVars
    /\ UNCHANGED adminVars
    /\ UNCHANGED appVars

NextSlots == CallOverlapsWith

SpecSlots == InitSlots /\ [][NextSlots]_vars

(***************************************************************************)
(* Properties of overlaps_with (checked under SpecSlots).                  *)
(***************************************************************************)
Called == overlap_result # None

\* The time of day a validated HH:MM field denotes, in minutes since midnight.
MinutesOfDay(t) == LET hm == strptime_HM(t) IN hm[1] * 60 + hm[2]

IntervalsIntersect(a, b) ==
    Max2(MinutesOfDay(a.start_time), MinutesOfDay(b.start_time))
        < Min2(MinutesOfDay(a.end_time), MinutesOfDay(b.end_time))

\* C5: for two slots on the same day whose week numbers do not exclude each
\* other and whose period codes differ, overlaps_with is True exactly when
\* max(startA, startB) < min(endA, endB), the times taken as minutes since
\* midnight.
C5_IntervalTest ==
    (/\ Called
     /\ slot_a.day_of_week = slot_b.day_of_week
     /\ ~WeeksExclude(slot_a, slot_b)
     /\ slot_a.period # slot_b.period)
    => (overlap_result[1] <=> IntervalsIntersect(slot_a, slot_b))

\* C6 as stated: equal day_of_week and equal period give True whatever the
\* other fields are (the week numbers included).
C6_SamePeriodAnyFields ==
    (/\ Called
     /\ slot_a.day_of_week = slot_b.day_of_week
     /\ slot_a.period = slot_b.period)
    => overlap_result[1] = TRUE

\* C6 (amended): equal day_of_week and equal period give True whatever the
\* start_time and end_time strings are, unless both slots carry a week_number
\* and the two differ.
C6_SamePeriodSameWeek ==
    (/\ Called
     /\ slot_a.day_of_week = slot_b.day_of_week
     /\ slot_a.period = slot_b.period
     /\ ~WeeksExclude(slot_a, slot_b))
    => overlap_result[1] = TRUE

\* same day and period, compatible weeks, disjoint times and a start time the
\* minute conversion rejects
C6_Witness ==
    /\ Called
    /\ slot_a.day_of_week = slot_b.day_of_week
    /\ slot_a.period = slot_b.period
    /\ slot_a.week_number = None /\ slot_b.week_number = Some(1)
    /\ slot_a.start_time = T830 /\ slot_a.end_time = T0830
    /\ slot_b.start_time = T0900 /\ slot_b.end_time = T0930
    /\ overlap_result = Some(TRUE)

WithoutWeek(s) == [s EXCEPT !.week_number = None]

\* C7: when at most one of the two slots has a week_number the result is the
\* one for the same two slots with both week numbers absent; a slot without
\* week number that shares day and period with a slot of a specific week
\* overlaps it.
C7_OneWeekNumberExcludesNothing ==
    (Called /\ (slot_a.week_number = None \/ slot_b.week_number = None))
    => /\ overlap_result[1] = overlaps_with(WithoutWeek(slot_a), WithoutWeek(slot_b))
       /\ (/\ slot_a.day_of_week = slot_b.day_of_week
           /\ slot_a.period = slot_b.period) => overlap_result[1] = TRUE
       /\ (/\ slot_a.day_of_week = slot_b.day_of_week
           /\ TimesOverlap(slot_a, slot_b)) => overlap_result[1] = TRUE

\* exactly one week number, different periods, 08:00-09:00 against 08:30-09:30
C7_Witness ==
    /\ Called
    /\ slot_a.week_number = None /\ slot_b.week_number = Some(MaxWeek)
    /\ slot_a.day_of_week = slot_b.day_of_week
    /\ slot_a.period # slot_b.period
    /\ slot_a.start_time = T0800 /\ slot_a.end_time = T0900
    /\ slot_b.start_time = T0830 /\ slot_b.end_time = T0930
    /\ overlap_result = Some(TRUE)

\* C8: if both slots have a week_number and the two differ, overlaps_with is
\* False even when day, period and times coincide.
C8_DifferentWeeksNeverOverlap ==
    (/\ Called
     /\ slot_a.week_number # None /\ slot_b.week_number # None
     /\ slot_a.week_number # slot_b.week_number)
    => overlap_result[1] = FALSE

\* weeks 1 and 2, everything else equal
C8_Witness ==
    /\ Called
    /\ slot_a.week_number = Some(1) /\ slot_b.week_number = Some(2)
    /\ slot_b = [slot_a EXCEPT !.week_number = Some(2)]
    /\ slot_a.start_time = T0800 /\ slot_a.end_time = T0900
    /\ overlap_result = Some(FALSE)

\* C9: slots with different day_of_week never overlap, whatever their week
\* numbers, periods and times.
C9_DifferentDayNeverOverlap ==
    (Called /\ slot_a.day_of_week # slot_b.day_of_week)
    => overlap_result[1] = FALSE

\* days 1 and 2, everything else equal
C9_Witness ==
    /\ Called
    /\ slot_a.day_of_week = 1
    /\ slot_b = [slot_a EXCEPT !.day_of_week = 2]
    /\ slot_a.start_time = T0800 /\ slot_a.end_time = T0900
    /\ overlap_result = Some(FALSE)

\* C10: overlaps_with is symmetric: a.overlaps_with(b) = b.overlaps_with(a),
\* also for slots whose time strings make the minute conversion fail.
C10_Symmetry ==
    Called => overlap_result[1] = overlaps_with(slot_b, slot_a)

\* different periods, one slot with a start time the conversion rejects
C10_Witness ==
    /\ Called
    /\ slot_a.day_of_week = slot_b.day_of_week
    /\ slot_a.period # slot_b.period
    /\ ~WeeksExclude(slot_a, slot_b)
    /\ to_minutes(slot_a.start_time) = ValueError
    /\ to_minutes(slot_a.end_time) # ValueError
    /\ to_minutes(slot_b.start_time) # ValueError
    /\ to_minutes(slot_b.end_time) # ValueError
    /\ overlap_result = Some(FALSE)

ConversionFails(slot) ==
    \/ to_minutes(slot.start_time) = ValueError
    \/ to_minutes(slot.end_time) = ValueError

\* C16: for two slots of the same day, with compatible weeks and different
\* periods, a failed conversion of a start or end time of either slot makes
\* overlaps_with return False; the call returns a boolean and raises nothing.
C16_ConversionFailureMeansNoOverlap ==
    (/\ Called
     /\ slot_a.day_of_week = slot_b.day_of_week
     /\ ~WeeksExclude(slot_a, slot_b)
     /\ slot_a.period # slot_b.period
     /\ (ConversionFails(slot_a) \/ ConversionFails(slot_b)))
    => /\ overlap_result[1] \in BOOLEAN
       /\ overlap_result[1] = FALSE

\* only the end time of the second slot fails to convert; read as times of
\* day, 08:00-09:00 and 08:00-8:30 intersect
C16_Witness ==
    /\ Called
    /\ slot_a.day_of_week = slot_b.day_of_week
    /\ slot_a.week_number = Some(1) /\ slot_b.week_number = Some(1)
    /\ slot_a.period = "D1" /\ slot_b.period = "DN"
    /\ slot_a.start_time = T0800 /\ slot_a.end_time = T0900
    /\ slot_b.start_time = T0800 /\ slot_b.end_time = T830
    /\ ~ConversionFails(slot_a)
    /\ overlap_result = Some(FALSE)

\* C27: every time text of a constructed slot is converted to minutes without
\* a failure, to the time of day it denotes, so overlaps_with on two
\* constructed slots never takes the except branch: for the same day,
\* compatible weeks and different periods the result is the interval test.
C27_ValidatedTimesConvert ==
    Called
    => /\ \A s \in {slot_a, slot_b} :
             /\ to_minutes(s.start_time) = Some(MinutesOfDay(s.start_time))
             /\ to_minutes(s.end_time) = Some(MinutesOfDay(s.end_time))
       /\ (/\ slot_a.day_of_week = slot_b.day_of_week
           /\ ~WeeksExclude(slot_a, slot_b)
           /\ slot_a.period # slot_b.period)
          => overlap_result[1] = IntervalsIntersect(slot_a, slot_b)

(***************************************************************************)
(* SpecConstruct: the CourseTimeSlot constructor on arbitrary field values. *)
(***************************************************************************)
TEmpty == <<>>
T085 == <<"0", "8", ":", "5">>
ConstructorDayInputs == {0, 1, 7, 8}
ConstructorWeekInputs == {None, Some(0), Some(1)}
ConstructorPeriodInputs == {"D1", "D9", "DN", "D0", "D10"}
ConstructorTimeInputs == TimeInputs \cup {TEmpty, T085}
ConstructorInputs ==
    [week_number : ConstructorWeekInputs, day_of_week : ConstructorDayInputs,
     period : ConstructorPeriodInputs,
     start_time : ConstructorTimeInputs, end_time : ConstructorTimeInputs]

\* What a constructor call leaves: nothing yet, the raised ValidationError, or
\* the instance.
NotConstructed == [raised |-> FALSE, instance |-> None]
ValidationError == [raised |-> TRUE, instance |-> None]
Instance(s) == [raised |-> FALSE, instance |-> Some(s)]

InitConstruct ==
    /\ fields \in ConstructorInputs
    /\ user_groups = Idle /\ csv_file = Idle
    /\ constructed = NotConstructed
    /\ slot_a = Idle /\ slot_b = Idle /\ overlap_result = Idle
    /\ selected_course = Idle /\ enrolled_courses = Idle
    /\ current_term = Idle /\ conflict_reason = Idle
    /\ courses = Idle /\ enrollments = Idle /\ settings = Idle /\ now = Idle
    /\ session = Idle /\ last_call = Idle
    /\ requests = Idle

\* The constructor call: the instance with the given field values, or the
\* validation error.
Construct ==
    /\ constructed = NotConstructed
    /\ constructed' = IF CourseTimeSlot(fields) THEN Instance(fields) ELSE ValidationError
    /\ UNCHANGED fields
    /\ UNCHANGED slotVars
    /\ UNCHANGED checkerVars
    /\ UNCHANGED appVars
    /\ UNCHANGED raceVars
    /\ UNCHANGED adminVars

NextConstruct == Construct

SpecConstruct == InitConstruct /\ [][NextConstruct]_vars

(***************************************************************************)
(* Properties of the constructor (checked under SpecConstruct).            *)
(***************************************************************************)
\* The texts that denote a time of day: an hour 0..23 and a minute 0..59, each
\* written with one or two digits, separated by a colon.
OneDigit(n) == <<Digits[n + 1]>>
TwoDigits(n) == <<Digits[(n \div 10) + 1], Digits[(n % 10) + 1]>>
Numerals(S) == {TwoDigits(n) : n \in S} \cup {OneDigit(n) : n \in {m \in S : m <= 9}}
TimeTexts == {h \o <<":">> \o m : h \in Numerals(0..23), m \in Numerals(0..59)}

AcademicYears == {"113-1", "112-2"}
CourseCodes == {"MATH101", "ENG201"}
course_name_of(code) == IF code = "MATH101" THEN "Calculus" ELSE "English"

\* Slots of the courses handed to the checker.
MonD1 == [week_number |-> None, day_of_week |-> 1, period |-> "D1",
          start_time |-> T0800, end_time |-> T0900]
MonDNWeek1 == [week_number |-> Some(1), day_of_week |-> 1, period |-> "DN",
               start_time |-> T0830, end_time |-> T0930]
TueD1 == [week_number |-> None, day_of_week |-> 2, period |-> "D1",
          start_time |-> T0800, end_time |-> T0900]
MonD1Week2 == [week_number |-> Some(2), day_of_week |-> 1, period |-> "D1",
               start_time |-> T0900, end_time |-> T0930]
SlotPool == {MonD1, MonDNWeek1, TueD1, MonD1Week2}

SeqsUpTo(S, n) == UNION {[1..k -> S] : k \in 0..n}

StoredCourse(ay, code, slots, open) ==
    [academic_year |-> ay, course_code |-> code,
     course_name |-> course_name_of(code), time_slots |-> slots,
     is_open_for_registration |-> open]

Course(ay, code, slots) == StoredCourse(ay, code, slots, TRUE)

SelectedCourses ==
    {Course(ay, code, slots) :
        ay \in AcademicYears, code \in CourseCodes, slots \in SeqsUpTo(SlotPool, MaxSlots)}

EnrolledSlotLists == {<<>>, <<MonD1>>, <<TueD1, MonDNWeek1>>}
EnrolledCoursePool ==
    {Course(ay, code, slots) :
        ay \in AcademicYears, code \in CourseCodes, slots \in EnrolledSlotLists}

\* The variable parts of the three messages check_course_conflict builds.
NoSlot == [day_of_week |-> 0, period |-> "-"]
NoCourse == [course_name |-> "-", course_code |-> "-"]
Reason(kind, sel, term, sel_slot, enr, enr_slot) ==
    [kind |-> kind,
     selected_name |-> sel.course_name, selected_code |-> sel.course_code,
     term |-> term,
     selected_day |-> sel_slot.day_of_week, selected_period |-> sel_slot.period,
     enrolled_name |-> enr.course_name, enrolled_code |-> enr.course_code,
     enrolled_day |-> enr_slot.day_of_week, enrolled_period |-> enr_slot.period]
WrongTermReason(sel, term) == Reason("wrong_term", sel, term, NoSlot, NoCourse, NoSlot)
SameCourseReason(sel) == Reason("same_course", sel, "-", NoSlot, NoCourse, NoSlot)
TimeOverlapReason(sel, sel_slot, enr, enr_slot) ==
    Reason("time_overlap", sel, "-", sel_slot, enr, enr_slot)

\* The two nested slot loops: the first overlapping pair, selected slots outer.
RECURSIVE ScanSlots(_, _, _, _)
ScanSlots(sel, enr, i, j) ==
    IF i > Len(sel.time_slots) THEN None
    ELSE IF j > Len(enr.time_slots) THEN ScanSlots(sel, enr, i + 1, 1)
    ELSE IF overlaps_with(sel.time_slots[i], enr.time_slots[j])
         THEN Some(TimeOverlapReason(sel, sel.time_slots[i], enr, enr.time_slots[j]))
         ELSE ScanSlots(sel, enr, i, j + 1)

\* The loop over enrolled_courses from position k on.
RECURSIVE ScanEnrolled(_, _, _, _)
ScanEnrolled(sel, enrolled, term, k) ==
    IF k > Len(enrolled) THEN None
    ELSE IF enrolled[k].academic_year # term THEN ScanEnrolled(sel, enrolled, term, k + 1)
    ELSE IF enrolled[k].course_code = sel.course_code THEN Some(SameCourseReason(sel))
    ELSE LET hit == ScanSlots(sel, enrolled[k], 1, 1)
         IN  IF hit # None THEN hit ELSE ScanEnrolled(sel, enrolled, term, k + 1)

\* Variants of check_course_conflict:
\* the same-course_code rule left out
RECURSIVE ScanEnrolledTimeOnly(_, _, _, _)
ScanEnrolledTimeOnly(sel, enrolled, term, k) ==
    IF k > Len(enrolled) THEN None
    ELSE IF enrolled[k].academic_year # term
         THEN ScanEnrolledTimeOnly(sel, enrolled, term, k + 1)
    ELSE LET hit == ScanSlots(sel, enrolled[k], 1, 1)
         IN  IF hit # None THEN hit ELSE ScanEnrolledTimeOnly(sel, enrolled, term, k + 1)

check_course_conflict_time_only(sel, enrolled, term) ==
    IF sel.academic_year # term THEN Some(WrongTermReason(sel, term))
    ELSE ScanEnrolledTimeOnly(sel, enrolled, term, 1)

\* "return None" indented into the loop: only the first enrolled course is looked at
check_course_conflict_first_only(sel, enrolled, term) ==
    IF sel.academic_year # term THEN Some(WrongTermReason(sel, term))
    ELSE ScanEnrolled(sel, SliceTo(enrolled, 1), term, 1)

\* the term filter of the loop inverted: courses of the term are skipped
RECURSIVE ScanEnrolledOtherTerms(_, _, _, _)
ScanEnrolledOtherTerms(sel, enrolled, term, k) ==
    IF k > Len(enrolled) THEN None
    ELSE IF enrolled[k].academic_year = term
         THEN ScanEnrolledOtherTerms(sel, enrolled, term, k + 1)
    ELSE IF enrolled[k].course_code = sel.course_code THEN Some(SameCourseReason(sel))
    ELSE LET hit == ScanSlots(sel, enrolled[k], 1, 1)
         IN  IF hit # None THEN hit
             ELSE ScanEnrolledOtherTerms(sel, enrolled, term, k + 1)

check_course_conflict_inverted_term_filter(sel, enrolled, term) ==
    IF sel.academic_year # term THEN Some(WrongTermReason(sel, term))
    ELSE ScanEnrolledOtherTerms(sel, enrolled, term, 1)

\* the term check of the candidate moved behind the loop
check_course_conflict_term_check_last(sel, enrolled, term) ==
    LET hit == ScanEnrolled(sel, enrolled, term, 1)
    IN  IF hit # None THEN hit
        ELSE IF sel.academic_year # term THEN Some(WrongTermReason(sel, term))
        ELSE None

\* the term filter of the loop left out: every enrolled course is compared
RECURSIVE ScanEnrolledAllTerms(_, _, _, _)
ScanEnrolledAllTerms(sel, enrolled, term, k) ==
    IF k > Len(enrolled) THEN None
    ELSE IF enrolled[k].course_code = sel.course_code THEN Some(SameCourseReason(sel))
    ELSE LET hit == ScanSlots(sel, enrolled[k], 1, 1)
         IN  IF hit # None THEN hit ELSE ScanEnrolledAllTerms(sel, enrolled, term, k + 1)

check_course_conflict_no_term_filter(sel, enrolled, term) ==
    IF sel.academic_year # term THEN Some(WrongTermReason(sel, term))
    ELSE ScanEnrolledAllTerms(sel, enrolled, term, 1)

\* the slots paired by position (zip) instead of the two nested loops
RECURSIVE ScanSlotsZipped(_, _, _)
ScanSlotsZipped(sel, enr, i) ==
    IF i > Len(sel.time_slots) \/ i > Len(enr.time_slots) THEN None
    ELSE IF overlaps_with(sel.time_slots[i], enr.time_slots[i])
         THEN Some(TimeOverlapReason(sel, sel.time_slots[i], enr, enr.time_slots[i]))
         ELSE ScanSlotsZipped(sel, enr, i + 1)

RECURSIVE ScanEnrolledZipped(_, _, _, _)
ScanEnrolledZipped(sel, enrolled, term, k) ==
    IF k > Len(enrolled) THEN None
    ELSE IF enrolled[k].academic_year # term
         THEN ScanEnrolledZipped(sel, enrolled, term, k + 1)
    ELSE IF enrolled[k].course_code = sel.course_code THEN Some(SameCourseReason(sel))
    ELSE LET hit == ScanSlotsZipped(sel, enrolled[k], 1)
         IN  IF hit # None THEN hit ELSE ScanEnrolledZipped(sel, enrolled, term, k + 1)

check_course_conflict_zipped_slots(sel, enrolled, term) ==
    IF sel.academic_year # term THEN Some(WrongTermReason(sel, term))
    ELSE ScanEnrolledZipped(sel, enrolled, term, 1)

\* the two slot loops swapped: enrolled slots outer, selected slots inner
RECURSIVE ScanSlotsEnrolledMajor(_, _, _, _)
ScanSlotsEnrolledMajor(sel, enr, i, j) ==
    IF j > Len(enr.time_slots) THEN None
    ELSE IF i > Len(sel.time_slots) THEN ScanSlotsEnrolledMajor(sel, enr, 1, j + 1)
    ELSE IF overlaps_with(sel.time_slots[i], enr.time_slots[j])
         THEN Some(TimeOverlapReason(sel, sel.time_slots[i], enr, enr.time_slots[j]))
         ELSE ScanSlotsEnrolledMajor(sel, enr, i + 1, j)

RECURSIVE ScanEnrolledSlotMajor(_, _, _, _)
ScanEnrolledSlotMajor(sel, enrolled, term, k) ==
    IF k > Len(enrolled) THEN None
    ELSE IF enrolled[k].academic_year # term
         THEN ScanEnrolledSlotMajor(sel, enrolled, term, k + 1)
    ELSE IF enrolled[k].course_code = sel.course_code THEN Some(SameCourseReason(sel))
    ELSE LET hit == ScanSlotsEnrolledMajor(sel, enrolled[k], 1, 1)
         IN  IF hit # None THEN hit
             ELSE ScanEnrolledSlotMajor(sel, enrolled, term, k + 1)

check_course_conflict_enrolled_slot_major(sel, enrolled, term) ==
    IF sel.academic_year # term THEN Some(WrongTermReason(sel, term))
    ELSE ScanEnrolledSlotMajor(sel, enrolled, term, 1)

check_course_conflict(sel, enrolled, term) ==
    IF sel.academic_year # term THEN Some(WrongTermReason(sel, term))
    ELSE ScanEnrolled(sel, enrolled, term, 1)

(***************************************************************************)
(* SpecChecker: check_course_conflict applied to its three arguments.      *)
(***************************************************************************)
NotCalled == "not called"

InitChecker ==
    /\ selected_course \in SelectedCourses
    /\ enrolled_courses \in SeqsUpTo(EnrolledCoursePool, MaxEnrolled)
    /\ current_term \in AcademicYears
    /\ conflict_reason = NotCalled
    /\ slot_a = Idle /\ slot_b = Idle /\ overlap_result = Idle
    /\ courses = Idle /\ enrollments = Idle /\ settings = Idle /\ now = Idle
    /\ session = Idle /\ last_call = Idle
    /\ requests = Idle /\ fields = Idle /\ constructed = Idle
    /\ user_groups = Idle /\ csv_file = Idle

\* A variant of the call that drops the courses of other terms from the
\* caller's list while it scans it:
CallCheckCourseConflict_filtering_in_place ==
    /\ conflict_reason = NotCalled
    /\ conflict_reason' =
           check_course_conflict(selected_course, enrolled_courses, current_term)
    /\ enrolled_courses' =
           LET OfTheTerm(c) == c.academic_year = current_term
           IN  SelectSeq(enrolled_courses, OfTheTerm)
    /\ UNCHANGED <<selected_course, current_term>>
    /\ UNCHANGED slotVars
    /\ UNCHANGED appVars
    /\ UNCHANGED raceVars
    /\ UNCHANGED ctorVars
    /\ UNCHANGED adminVars

CallCheckCourseConflict ==
    /\ conflict_reason = NotCalled
    /\ conflict_reason' =
           check_course_conflict(selected_course, enrolled_courses, current_term)
    /\ UNCHANGED <<selected_course, enrolled_courses, current_term>>
    /\ UNCHANGED slotVars
    /\ UNCHANGED appVars
    /\ UNCHANGED raceVars
    /\ UNCHANGED ctorVars
    /\ UNCHANGED adminVars

NextChecker == CallCheckCourseConflict

SpecChecker == InitChecker /\ [][NextChecker]_vars

(***************************************************************************)
(* Properties of check_course_conflict (checked under SpecChecker).        *)
(***************************************************************************)
Checked == conflict_reason # NotCalled

\* the enrolled courses of the term
OfTerm == {k \in 1..Len(enrolled_courses) :
              enrolled_courses[k].academic_year = current_term}

SameCodeEnrolled ==
    \E k \in OfTerm : enrolled_courses[k].course_code = selected_course.course_code

SomeSlotPairOverlaps ==
    \E k \in OfTerm :
        \E i \in 1..Len(selected_course.time_slots) :
            \E j \in 1..Len(enrolled_courses[k].time_slots) :
                overlaps_with(selected_course.time_slots[i],
                              enrolled_courses[k].time_slots[j])

\* C3: for a candidate of the term, check_course_conflict returns None iff no
\* enrolled course of the term has the candidate's course_code and no pair
\* (candidate slot, slot of an enrolled course of the term) overlaps; a
\* candidate or an enrolled course without time slots conflicts only through
\* its course_code.
C3_NoneIffNoConflict ==
    (Checked /\ selected_course.academic_year = current_term)
    => /\ (conflict_reason = None) <=> (~SameCodeEnrolled /\ ~SomeSlotPairOverlaps)
       /\ (\/ selected_course.time_slots = <<>>
           \/ \A k \in OfTerm : enrolled_courses[k].time_slots = <<>>)
          => ((conflict_reason = None) <=> ~SameCodeEnrolled)
       /\ conflict_reason # None
          => \/ conflict_reason[1].kind = "same_course"
             \/ /\ conflict_reason[1].kind = "time_overlap"
                /\ selected_course.time_slots # <<>>
                /\ \E k \in OfTerm :
                      /\ enrolled_courses[k].time_slots # <<>>
                      /\ enrolled_courses[k].course_code = conflict_reason[1].enrolled_code

\* a candidate with two slots, an enrolled course of the term whose slots miss
\* them by day and by week, one without slots, and no conflict
C3_Witness ==
    /\ Checked
    /\ selected_course.academic_year = current_term
    /\ selected_course.course_code = "MATH101"
    /\ selected_course.time_slots = <<MonD1Week2, MonD1Week2>>
    /\ Len(enrolled_courses) = 2
    /\ enrolled_courses[1] = Course(current_term, "ENG201", <<TueD1, MonDNWeek1>>)
    /\ enrolled_courses[2] = Course(current_term, "ENG201", <<>>)
    /\ conflict_reason = None

\* C4: if the enrolled list contains a course of the term with the
\* candidate's course_code, check_course_conflict returns a reason for every
\* choice of the two courses' time slots, disjoint or empty ones included.
C4_SameCodeAlwaysRejected ==
    (Checked /\ SameCodeEnrolled) => conflict_reason # None

\* same code, the candidate's slot on another day than the enrolled course's,
\* and a second enrolled course without slots
C4_Witness ==
    /\ Checked
    /\ selected_course = Course(current_term, "ENG201", <<TueD1>>)
    /\ enrolled_courses = <<Course(current_term, "ENG201", <<MonD1>>)>>
    /\ ~SomeSlotPairOverlaps
    /\ conflict_reason # None
    /\ conflict_reason[1].kind = "same_course"

\* C11: a candidate whose academic_year is not the term gets the term-mismatch
\* reason, naming the candidate and the term, whatever the enrolled list holds:
\* a same-code or overlapping enrolled course of the term changes nothing.
C11_WrongTermCandidateRejected ==
    (Checked /\ selected_course.academic_year # current_term)
    => /\ conflict_reason # None
       /\ conflict_reason[1].kind = "wrong_term"
       /\ conflict_reason[1].term = current_term
       /\ conflict_reason[1].selected_code = selected_course.course_code
       /\ conflict_reason[1].selected_name = selected_course.course_name
       /\ conflict_reason[1].enrolled_code = NoCourse.course_code
       /\ conflict_reason[1].selected_period = NoSlot.period
       /\ conflict_reason[1].enrolled_period = NoSlot.period

\* a 112-2 candidate checked against 113-1 while a 113-1 course with the same
\* code and the same slot is enrolled
C11_Witness ==
    /\ Checked
    /\ current_term = "113-1"
    /\ selected_course = Course("112-2", "MATH101", <<MonD1>>)
    /\ enrolled_courses = <<Course("113-1", "MATH101", <<MonD1>>)>>
    /\ conflict_reason # None
    /\ conflict_reason[1].kind = "wrong_term"

OfCurrentTerm(c) == c.academic_year = current_term

\* C12: enrolled courses of another term never cause a conflict: the result
\* is the one for the enrolled list with those courses removed, and a
\* candidate of the term checked against courses of other terms only is
\* accepted, even with the same course_code or overlapping slots.
C12_OtherTermEnrolledIgnored ==
    Checked
    => /\ conflict_reason =
             check_course_conflict(selected_course,
                                   SelectSeq(enrolled_courses, OfCurrentTerm),
                                   current_term)
       /\ (selected_course.academic_year = current_term /\ OfTerm = {})
          => conflict_reason = None

\* the candidate's code and slot are those of an enrolled course of the other
\* term; the enrolled course of the term does not conflict
C12_Witness ==
    /\ Checked
    /\ current_term = "113-1"
    /\ selected_course = Course("113-1", "MATH101", <<MonD1>>)
    /\ enrolled_courses = <<Course("112-2", "MATH101", <<MonD1>>),
                            Course("113-1", "ENG201", <<>>)>>
    /\ conflict_reason = None

Bijections(n) == {p \in [1..n -> 1..n] : \A i, j \in 1..n : p[i] = p[j] => i = j}
PermutationsOf(s) == {[i \in 1..Len(s) |-> s[p[i]]] : p \in Bijections(Len(s))}
SlotShuffles(c) == {[c EXCEPT !.time_slots = t] : t \in PermutationsOf(c.time_slots)}

\* the lists that are `list` with the slots of every course reordered
RECURSIVE SlotShuffledLists(_)
SlotShuffledLists(list) ==
    IF Len(list) = 0 THEN {<<>>}
    ELSE {<<c>> \o rest : c \in SlotShuffles(Head(list)),
                          rest \in SlotShuffledLists(Tail(list))}

\* the enrolled lists that are `list` reordered, the slots of every course
\* reordered too
Shuffles(list) == UNION {SlotShuffledLists(l) : l \in PermutationsOf(list)}

\* C13: whether check_course_conflict returns a reason does not depend on the
\* order of the enrolled list nor on the order of the slots inside the
\* candidate or an enrolled course: every reordering is rejected iff the
\* original is.
C13_DecisionOrderIndependent ==
    Checked
    => \A sel \in SlotShuffles(selected_course) :
           \A enrolled \in Shuffles(enrolled_courses) :
               (check_course_conflict(sel, enrolled, current_term) = None)
                   <=> (conflict_reason = None)

\* the only overlapping pair is (first candidate slot, second enrolled slot),
\* and the course that conflicts is the second of the list
C13_Witness ==
    /\ Checked
    /\ selected_course = Course(current_term, "MATH101", <<MonD1, MonD1Week2>>)
    /\ enrolled_courses = <<Course(current_term, "ENG201", <<>>),
                            Course(current_term, "ENG201", <<TueD1, MonDNWeek1>>)>>
    /\ conflict_reason # None
    /\ conflict_reason[1].kind = "time_overlap"
    /\ conflict_reason[1].selected_period = "D1"
    /\ conflict_reason[1].enrolled_period = "DN"

\* the enrolled courses of the term that conflict with the candidate at all
Conflicting ==
    {k \in OfTerm :
        \/ enrolled_courses[k].course_code = selected_course.course_code
        \/ \E i \in 1..Len(selected_course.time_slots) :
              \E j \in 1..Len(enrolled_courses[k].time_slots) :
                  overlaps_with(selected_course.time_slots[i],
                                enrolled_courses[k].time_slots[j])}

OverlappingPairs(k) ==
    {pr \in (1..Len(selected_course.time_slots)) \X (1..Len(enrolled_courses[k].time_slots)) :
        overlaps_with(selected_course.time_slots[pr[1]],
                      enrolled_courses[k].time_slots[pr[2]])}

\* C20: the reason is about the first enrolled course, in list order, that
\* conflicts at all; if that course has the candidate's course_code the reason
\* is the same-course one, else it is the time-overlap reason naming that
\* course and the first overlapping pair with candidate slots outer and
\* enrolled slots inner.
C20_FirstConflictReported ==
    (Checked /\ selected_course.academic_year = current_term /\ conflict_reason # None)
    => /\ Conflicting # {}
       /\ LET k == CHOOSE c \in Conflicting : \A d \in Conflicting : c <= d
              enr == enrolled_courses[k]
          IN  IF enr.course_code = selected_course.course_code
              THEN conflict_reason[1] = SameCourseReason(selected_course)
              ELSE LET pairs == OverlappingPairs(k)
                       first == CHOOSE pr \in pairs :
                                    \A q \in pairs :
                                        \/ pr[1] < q[1]
                                        \/ pr[1] = q[1] /\ pr[2] <= q[2]
                   IN  conflict_reason[1] =
                           TimeOverlapReason(selected_course,
                                             selected_course.time_slots[first[1]],
                                             enr, enr.time_slots[first[2]])

\* the first enrolled course overlaps in the pairs (1,2) and (2,1), the second
\* has the candidate's code: the reason names the first course and pair (1,2)
C20_Witness ==
    /\ Checked
    /\ selected_course = Course(current_term, "MATH101", <<MonD1, TueD1>>)
    /\ enrolled_courses = <<Course(current_term, "ENG201", <<TueD1, MonDNWeek1>>),
                            Course(current_term, "MATH101", <<MonD1>>)>>
    /\ conflict_reason # None
    /\ conflict_reason[1].kind = "time_overlap"
    /\ conflict_reason[1].enrolled_name = "English"
    /\ conflict_reason[1].selected_day = 1
    /\ conflict_reason[1].selected_period = "D1"
    /\ conflict_reason[1].enrolled_day = 1
    /\ conflict_reason[1].enrolled_period = "DN"

(***************************************************************************)
(* SpecPure: a call of either function, overlaps_with on two slots or      *)
(* check_course_conflict on its three arguments.                           *)
(***************************************************************************)
InitPure == InitSlots \/ InitChecker

\* conflict_reason is Idle exactly when the call at hand is one of overlaps_with
NextPure ==
    \/ conflict_reason = Idle /\ CallOverlapsWith
    \/ conflict_reason # Idle /\ CallCheckCourseConflict

SpecPure == InitPure /\ [][NextPure]_vars

\* C14: a call of check_course_conflict leaves the candidate, the enrolled
\* list (its courses, their slots and their order) and the term as they were,
\* a call of overlaps_with leaves both slots as they were, and neither writes
\* a stored document, a session or any other state.
C14_InputsUnchanged ==
    [][/\ conflict_reason' # conflict_reason
          => /\ selected_course' = selected_course
             /\ enrolled_courses' = enrolled_courses
             /\ current_term' = current_term
             /\ appVars' = appVars
             /\ slotVars' = slotVars
       /\ overlap_result' # overlap_result
          => /\ slot_a' = slot_a
             /\ slot_b' = slot_b
             /\ appVars' = appVars
             /\ checkerVars' = checkerVars]_vars

\* a call that went through a course of the other term and the slots of a
\* course of the term before it returned a time-overlap reason
C14_Witness ==
    /\ conflict_reason # Idle
    /\ Checked
    /\ current_term = "113-1"
    /\ selected_course = Course("113-1", "MATH101", <<MonD1Week2, MonD1>>)
    /\ enrolled_courses = <<Course("112-2", "MATH101", <<MonD1>>),
                            Course("113-1", "ENG201", <<TueD1, MonDNWeek1>>)>>
    /\ conflict_reason # None
    /\ conflict_reason[1].kind = "time_overlap"

(***************************************************************************)
(* The stored documents: users, courses, enrollments, academic year        *)
(* settings.                                                               *)
(***************************************************************************)
STUDENT == "STUDENT"
COURSE_MANAGER == "COURSE_MANAGER"
AUTHENTICATED_USER == "AUTHENTICATED_USER"

Users == {"u1", "u2"}
UserDoc(u) ==
    IF u = "u1"
    THEN [id |-> "u1", google_sub |-> "g1", student_id |-> Some("S001"),
          email |-> "u1@school", groups |-> {STUDENT, AUTHENTICATED_USER}]
    ELSE [id |-> "u2", google_sub |-> "g2", student_id |-> None,
          email |-> "u2@school", groups |-> {STUDENT, AUTHENTICATED_USER}]

\* User.find_one(<field> == value): None or the document.
FindUser(field, value) ==
    LET hits == {u \in Users : UserDoc(u)[field] = value}
    IN  IF hits = {} THEN None ELSE Some(UserDoc(CHOOSE u \in hits : TRUE))

\* The browser sessions of the model: u1 uses the course selection page.
SessionUsers == {"u1"}

\* Course documents c1, c2 (term 113-1) and c3 (term 112-2, the course_code and
\* the slot of c1, closed for registration); the unique index
\* (academic_year, course_code) holds of them.  The slots of c2 miss the slot
\* of c1, overlap it in time, or share its period.
CourseIds == {"c1", "c2", "c3"}
StoredSlotLists == {<<>>, <<TueD1, MonDNWeek1>>, <<MonD1Week2>>}
Catalogues ==
    {[c \in CourseIds |->
        IF c = "c1" THEN StoredCourse("113-1", "MATH101", <<MonD1>>, TRUE)
        ELSE IF c = "c2" THEN StoredCourse("113-1", "ENG201", l2, TRUE)
        ELSE StoredCourse("112-2", "MATH101", <<MonD1>>, FALSE)] :
        l2 \in StoredSlotLists}

\* Texts a client may send as a course id: the stored ids, a well-formed
\* ObjectId of no document, and a text PydanticObjectId rejects.
ObjectIds == CourseIds \cup {"c9"}
CourseIdInputs == ObjectIds \cup {"not-an-id"}

SUCCESS == "SUCCESS"
PENDING_CONFIRMATION == "PENDING_CONFIRMATION"
CANCELLED_BY_STUDENT == "CANCELLED_BY_STUDENT"
CANCELLED_CONFLICT == "CANCELLED_CONFLICT"
CANCELLED_ADMIN == "CANCELLED_ADMIN"

\* Enrollment(...): the document before it is stored, without id.
Enrollment(user_id, course_id, academic_year, status) ==
    [id |-> None, user_id |-> user_id, course_id |-> course_id,
     academic_year |-> academic_year, status |-> status]

is_active_enrollment(e) ==
    e.status \notin {CANCELLED_BY_STUDENT, CANCELLED_CONFLICT, CANCELLED_ADMIN}

\* A variant without the unique index: no insert is refused.
DuplicateKey_no_unique_index(e) == FALSE

\* The unique index unique_user_course_academic_year: would insert(e) raise
\* DuplicateKeyError?
DuplicateKey(e) ==
    \E x \in enrollments :
        /\ x.user_id = e.user_id
        /\ x.course_id = e.course_id
        /\ x.academic_year = e.academic_year

SameKey(x, e) ==
    /\ x.user_id = e.user_id
    /\ x.course_id = e.course_id
    /\ x.academic_year = e.academic_year

\* insert() of a document the index admits: it is stored under a new id.  An
\* id is written as the number of the document among the stored ones with its
\* user, course and academic year, which is new whatever else is stored.
insert(e) ==
    [e EXCEPT !.id = Some(Cardinality({x \in enrollments : SameKey(x, e)}) + 1)]

\* Enrollment.find(user_id, academic_year, status in [SUCCESS, PENDING_CONFIRMATION])
valid_statuses == {SUCCESS, PENDING_CONFIRMATION}
existing_enrollments(user_id, academic_year) ==
    {e \in enrollments :
        /\ e.user_id = user_id
        /\ e.academic_year = academic_year
        /\ e.status \in valid_statuses}

\* Enrollment.find_one(user_id, course_id, academic_year): None or the record.
FindEnrollment(user_id, course_id, academic_year) ==
    LET hits == {e \in enrollments :
                    /\ e.user_id = user_id
                    /\ e.course_id = course_id
                    /\ e.academic_year = academic_year}
    IN  IF hits = {} THEN None ELSE Some(CHOOSE e \in hits : TRUE)

\* to_list() of a find() without sort: the matching documents in some order.
Orderings(S) ==
    {f \in [1..Cardinality(S) -> S] : \A x \in S : \E i \in 1..Cardinality(S) : f[i] = x}

\* The fetched Course of every enrollment whose course still exists.
RECURSIVE FetchCourses(_)
FetchCourses(list) ==
    IF Len(list) = 0 THEN <<>>
    ELSE (IF list[1].course_id \in DOMAIN courses
          THEN <<courses[list[1].course_id]>> ELSE <<>>)
         \o FetchCourses(Tail(list))

\* AcademicYearSetting documents in the order of their set_at.
Setting(academic_year, registration_start, registration_end, active) ==
    [academic_year |-> academic_year,
     registration_start_time |-> registration_start,
     registration_end_time |-> registration_end,
     is_active |-> active]

\* find_one(is_active == True, sort -set_at)
get_current ==
    LET active == {k \in 1..Len(settings) : settings[k].is_active}
    IN  IF active = {} THEN None
        ELSE Some(settings[CHOOSE k \in active : \A j \in active : j <= k])

(***************************************************************************)
(* Operations.                                                             *)
(***************************************************************************)
\* set_current without the update_many that deactivates the earlier settings
set_current_without_deactivation(academic_year, registration_start, registration_end) ==
    /\ Len(settings) < MaxSettings
    /\ settings' =
          Append(settings,
                 Setting(academic_year, registration_start, registration_end, TRUE))
    /\ UNCHANGED <<courses, enrollments, now, session, last_call>>
    /\ UNCHANGED slotVars
    /\ UNCHANGED checkerVars
    /\ UNCHANGED raceVars
    /\ UNCHANGED ctorVars
    /\ UNCHANGED adminVars

\* AcademicYearSetting.set_current: update_many deactivates every active
\* setting, then the new active setting is inserted.
set_current(academic_year, registration_start, registration_end) ==
    /\ Len(settings) < MaxSettings
    /\ settings' =
          Append([k \in 1..Len(settings) |-> [settings[k] EXCEPT !.is_active = FALSE]],
                 Setting(academic_year, registration_start, registration_end, TRUE))
    /\ UNCHANGED <<courses, enrollments, now, session, last_call>>
    /\ UNCHANGED slotVars
    /\ UNCHANGED checkerVars
    /\ UNCHANGED raceVars
    /\ UNCHANGED ctorVars
    /\ UNCHANGED adminVars

\* AuthState.on_success for a valid Google token of user u: the groups of the
\* User document are copied into the session.
on_success(u) ==
    /\ ~session[u].token_is_valid
    /\ session' = [session EXCEPT ![u].token_is_valid = TRUE,
                                  ![u].google_sub = Some(UserDoc(u).google_sub),
                                  ![u].groups = UserDoc(u).groups]
    /\ UNCHANGED <<courses, enrollments, settings, now, last_call>>
    /\ UNCHANGED slotVars
    /\ UNCHANGED checkerVars
    /\ UNCHANGED raceVars
    /\ UNCHANGED ctorVars
    /\ UNCHANGED adminVars

\* CourseSelectionState._load_current_academic_year_and_settings: the fields
\* it assigns, as <<current_academic_year, is_registration_open, message>>.
NOT_SET == "not set"
LoadedSettings ==
    LET cur == get_current
    IN  IF cur = None THEN <<NOT_SET, FALSE, "no academic year setting">>
        ELSE LET start_time == cur[1].registration_start_time
                 end_time == cur[1].registration_end_time
                 ay == cur[1].academic_year
             IN  IF start_time # None /\ end_time # None
                 THEN IF start_time[1] <= now /\ now <= end_time[1]
                      THEN <<ay, TRUE, "open">>
                      ELSE IF now < start_time[1]
                      THEN <<ay, FALSE, "not started">>
                      ELSE <<ay, FALSE, "closed">>
                 ELSE IF start_time # None
                 THEN IF start_time[1] <= now
                      THEN <<ay, TRUE, "open">>
                      ELSE <<ay, FALSE, "not started">>
                 ELSE IF end_time # None
                 THEN IF now <= end_time[1]
                      THEN <<ay, TRUE, "open">>
                      ELSE <<ay, FALSE, "closed">>
                 ELSE <<ay, TRUE, "open, no times set">>

\* CourseSelectionState.on_page_load
on_page_load(u) ==
    /\ session[u].token_is_valid
    /\ session' = [session EXCEPT ![u].current_academic_year = LoadedSettings[1],
                                  ![u].is_registration_open = LoadedSettings[2],
                                  ![u].registration_time_message = LoadedSettings[3]]
    /\ UNCHANGED <<courses, enrollments, settings, now, last_call>>
    /\ UNCHANGED slotVars
    /\ UNCHANGED checkerVars
    /\ UNCHANGED raceVars
    /\ UNCHANGED ctorVars
    /\ UNCHANGED adminVars

\* What a handler call leaves behind: the toast it returns (or the exception
\* it lets escape) and the value check_course_conflict returned, if called.
Outcome(handler, toast, message, conflict) ==
    [handler |-> handler, toast |-> toast, message |-> message, conflict |-> conflict]
NoCall == Outcome("-", "-", "-", NotCalled)

Rejected(handler, toast, message, conflict) ==
    [call |-> Outcome(handler, toast, message, conflict), inserted |-> {}]
Inserted(handler, message, e) ==
    [call |-> Outcome(handler, "success", message, None), inserted |-> {e}]

\* The steps both workflows share once the checker has returned: abort on a
\* reason, stop on an active enrollment of the same course, else insert.
\* A variant that goes on after the checker returned a reason:
check_then_insert_ignoring_reason(H, reason, already, new_enrollment, active_toast, duplicate) ==
    IF already # None /\ is_active_enrollment(already[1])
    THEN Rejected(H, active_toast, "already enrolled", reason)
    ELSE IF DuplicateKey(new_enrollment)
    THEN Rejected(H, duplicate[1], duplicate[2], reason)
    ELSE [call |-> Outcome(H, "success", "enrolled", reason),
          inserted |-> {new_enrollment}]

check_then_insert(H, reason, already, new_enrollment, active_toast, duplicate) ==
    IF reason # None
    THEN Rejected(H, "error", "enrollment failed: conflict", reason)
    ELSE IF already # None /\ is_active_enrollment(already[1])
    THEN Rejected(H, active_toast, "already enrolled", reason)
    ELSE IF DuplicateKey(new_enrollment)
    THEN Rejected(H, duplicate[1], duplicate[2], reason)
    ELSE Inserted(H, "enrolled", new_enrollment)

\* CourseSelectionState.handle_select_course with the existing enrollments
\* listed in the order `existing`.
SelectCourse(u, course_id_str, existing) ==
    LET H == "handle_select_course"
        s == session[u]
        year == s.current_academic_year
        current_user_db ==
            IF s.google_sub = None THEN None ELSE FindUser("google_sub", s.google_sub[1])
    IN  IF ~s.token_is_valid \/ s.google_sub = None
        THEN Rejected(H, "error", "login required", NotCalled)
        ELSE IF STUDENT \notin s.groups
        THEN Rejected(H, "error", "students only", NotCalled)
        ELSE IF ~s.is_registration_open
        THEN Rejected(H, "error", s.registration_time_message, NotCalled)
        ELSE IF current_user_db = None
        THEN Rejected(H, "error", "user not found", NotCalled)
        ELSE IF course_id_str \notin ObjectIds
        THEN Rejected(H, "error", "invalid course id", NotCalled)
        ELSE IF course_id_str \notin DOMAIN courses
        THEN Rejected(H, "error", "course not found", NotCalled)
        ELSE LET selected == courses[course_id_str]
                 enrolled_courses_details == FetchCourses(existing)
                 reason == check_course_conflict(selected, enrolled_courses_details, year)
                 already == FindEnrollment(current_user_db[1].id, course_id_str, year)
                 new_enrollment ==
                     Enrollment(current_user_db[1].id, course_id_str, year, SUCCESS)
             IN  IF ~selected.is_open_for_registration \/ selected.academic_year # year
                 THEN Rejected(H, "error", "course not available", NotCalled)
                 ELSE check_then_insert(H, reason, already, new_enrollment, "info",
                                        <<"exception", "DuplicateKeyError">>)

handle_select_course(u, course_id_str) ==
    LET current_user_db ==
            IF session[u].google_sub = None THEN None
            ELSE FindUser("google_sub", session[u].google_sub[1])
        found == IF current_user_db = None THEN {}
                 ELSE existing_enrollments(current_user_db[1].id,
                                           session[u].current_academic_year)
    IN  \E existing \in Orderings(found) :
            LET result == SelectCourse(u, course_id_str, existing)
            IN  /\ enrollments' = enrollments \cup {insert(e) : e \in result.inserted}
                /\ last_call' = result.call
                /\ UNCHANGED <<courses, settings, now, session>>
                /\ UNCHANGED slotVars
                /\ UNCHANGED checkerVars
                /\ UNCHANGED raceVars
                /\ UNCHANGED ctorVars
                /\ UNCHANGED adminVars

\* The student of the form: by student_id first, then by email.
FoundUser(student_identifier) ==
    IF FindUser("student_id", Some(student_identifier)) # None
    THEN FindUser("student_id", Some(student_identifier))
    ELSE FindUser("email", student_identifier)

\* ManagerEnrollmentsState.handle_manual_enroll_submit with the student's
\* enrollments listed in the order `existing`.
ManualEnroll(student_identifier, selected_course_id, existing) ==
    LET H == "handle_manual_enroll_submit"
        found_user == FoundUser(student_identifier)
        current_ay_setting == get_current
    IN  IF student_identifier = "" \/ selected_course_id = None
        THEN Rejected(H, "error", "student and course required", NotCalled)
        ELSE IF found_user = None
        THEN Rejected(H, "error", "student not found", NotCalled)
        ELSE IF selected_course_id[1] \notin ObjectIds
        THEN Rejected(H, "error", "manual enrollment failed", NotCalled)
        ELSE IF selected_course_id[1] \notin DOMAIN courses
        THEN Rejected(H, "error", "course not found", NotCalled)
        ELSE LET selected == courses[selected_course_id[1]]
             IN  IF \/ current_ay_setting = None
                    \/ selected.academic_year # current_ay_setting[1].academic_year
                 THEN Rejected(H, "error", "course not of the current year", NotCalled)
                 ELSE LET year == current_ay_setting[1].academic_year
                          enrolled_actual_courses == FetchCourses(existing)
                          reason == check_course_conflict(
                                        selected, enrolled_actual_courses, year)
                          already == FindEnrollment(
                                        found_user[1].id, selected_course_id[1], year)
                          new_enrollment ==
                              Enrollment(found_user[1].id, selected_course_id[1],
                                         year, SUCCESS)
                      IN  check_then_insert(H, reason, already, new_enrollment, "error",
                                            <<"error", "manual enrollment failed">>)

handle_manual_enroll_submit(student_identifier, selected_course_id) ==
    LET found_user == FoundUser(student_identifier)
        current_ay_setting == get_current
        found == IF found_user = None \/ current_ay_setting = None THEN {}
                 ELSE existing_enrollments(found_user[1].id,
                                           current_ay_setting[1].academic_year)
    IN  \E existing \in Orderings(found) :
            LET result == ManualEnroll(student_identifier, selected_course_id, existing)
            IN  /\ enrollments' = enrollments \cup {insert(e) : e \in result.inserted}
                /\ last_call' = result.call
                /\ UNCHANGED <<courses, settings, now, session>>
                /\ UNCHANGED slotVars
                /\ UNCHANGED checkerVars
                /\ UNCHANGED raceVars
                /\ UNCHANGED ctorVars
                /\ UNCHANGED adminVars

(***************************************************************************)
(* Spec: the enrollment workflows over a stored catalogue, starting from   *)
(* no enrollments and no academic year setting.                            *)
(***************************************************************************)
NewSession ==
    [token_is_valid |-> FALSE, google_sub |-> None, groups |-> {},
     current_academic_year |-> "", is_registration_open |-> FALSE,
     registration_time_message |-> ""]

\* Inputs of the operations.
StudentIdentifierInputs == {"S001", "u2@school", "S999", ""}
ManualCourseInputs == {None} \cup {Some(c) : c \in CourseIdInputs}
RegistrationStartInputs == {None}
RegistrationEndInputs == {None}

Init ==
    /\ courses \in Catalogues
    /\ enrollments = {}
    /\ settings = <<>>
    /\ now = 1
    /\ session = [u \in SessionUsers |-> NewSession]
    /\ last_call = NoCall
    /\ requests = Idle /\ fields = Idle /\ constructed = Idle
    /\ user_groups = Idle /\ csv_file = Idle
    /\ slot_a = Idle /\ slot_b = Idle /\ overlap_result = Idle
    /\ selected_course = Idle /\ enrolled_courses = Idle
    /\ current_term = Idle /\ conflict_reason = Idle

Next ==
    \/ \E ay \in AcademicYears, rs \in RegistrationStartInputs,
          re \in RegistrationEndInputs : set_current(ay, rs, re)
    \/ \E u \in SessionUsers : on_success(u)
    \/ \E u \in SessionUsers : on_page_load(u)
    \/ \E u \in SessionUsers, c \in CourseIdInputs : handle_select_course(u, c)
    \/ \E sid \in StudentIdentifierInputs, c \in ManualCourseInputs :
          handle_manual_enroll_submit(sid, c)

Spec == Init /\ [][Next]_vars

(***************************************************************************)
(* Properties of the enrollment workflows (checked under Spec).            *)
(***************************************************************************)
CoursesOverlap(c, d) ==
    \E i \in 1..Len(c.time_slots) :
        \E j \in 1..Len(d.time_slots) :
            \/ overlaps_with(c.time_slots[i], d.time_slots[j])
            \/ overlaps_with(d.time_slots[j], c.time_slots[i])

ActiveOf(u, ay) ==
    {e \in enrollments :
        /\ e.user_id = u
        /\ e.academic_year = ay
        /\ e.status \in {SUCCESS, PENDING_CONFIRMATION}}

\* C1: after any sequence of completed enrollment operations on an unedited
\* catalogue, starting from no enrollments, the courses of a student's
\* SUCCESS or PENDING_CONFIRMATION enrollments of one academic year have
\* pairwise distinct course_code and no time slot of one overlaps a time slot
\* of another.
C1_NoDoubleBooking ==
    \A u \in Users :
        \A ay \in AcademicYears \cup {"", NOT_SET} :
            \A e1 \in ActiveOf(u, ay) :
                \A e2 \in ActiveOf(u, ay) \ {e1} :
                    /\ e1.course_id \in DOMAIN courses
                    /\ e2.course_id \in DOMAIN courses
                    /\ courses[e1.course_id].course_code # courses[e2.course_id].course_code
                    /\ ~CoursesOverlap(courses[e1.course_id], courses[e2.course_id])

\* u1 holds c1 (113-1) and c3 (112-2, same code and slot), and the attempt to
\* add c2 has just been refused for a time overlap
C1_Witness ==
    /\ {e.course_id : e \in {x \in enrollments : x.user_id = "u1"}} = {"c1", "c3"}
    /\ last_call.message = "enrollment failed: conflict"
    /\ last_call.conflict # None
    /\ last_call.conflict[1].kind = "time_overlap"
    /\ last_call.conflict[1].selected_code = "ENG201"

\* C2: in both workflows the checker is evaluated before the insert; when it
\* returns a reason the call ends with an error message and the stored
\* enrollments are unchanged, and an insert happens only when it returned None.
C2_ConflictAbortsBeforeInsert ==
    [][/\ (last_call'.conflict # NotCalled /\ last_call'.conflict # None)
          => (enrollments' = enrollments /\ last_call'.toast = "error")
       /\ enrollments' # enrollments
          => /\ last_call'.conflict = None
             /\ last_call'.toast = "success"
             /\ \E e \in enrollments' : enrollments' = enrollments \cup {e}]_vars

\* the self-service workflow has just refused a course for a time overlap
\* while the staff workflow had enrolled the other student
C2_Witness ==
    /\ last_call.handler = "handle_select_course"
    /\ last_call.toast = "error"
    /\ last_call.conflict # NotCalled
    /\ last_call.conflict # None
    /\ last_call.conflict[1].kind = "time_overlap"
    /\ \E e \in enrollments : e.user_id = "u2"
    /\ \E e \in enrollments : e.user_id = "u1"

\* C22: after any sequence of completed set_current calls exactly one setting
\* is active, it is the one created last, get_current returns it and every
\* earlier setting is inactive.
C22_LastSettingIsTheOnlyActive ==
    settings # <<>>
    => /\ Cardinality({k \in 1..Len(settings) : settings[k].is_active}) = 1
       /\ settings[Len(settings)].is_active
       /\ get_current = Some(settings[Len(settings)])
       /\ \A k \in 1..(Len(settings) - 1) : ~settings[k].is_active

C22_Witness ==
    /\ Len(settings) >= 2
    /\ settings[1].academic_year # settings[Len(settings)].academic_year

(***************************************************************************)
(* SpecRace: the two workflows as they run concurrently.  The student's    *)
(* session and the staff session each run one handler at a time; a handler *)
(* yields at every await, and between its reads of the enrollments (the    *)
(* find before the checker, the find_one after it) and its insert the      *)
(* other session's handler may run.  Users, courses and settings are not   *)
(* written by either handler, so the reads of them are taken with the      *)
(* first read of the enrollments.                                          *)
(***************************************************************************)
RequestIds == {"self_service", "staff"}

NoRequest ==
    [pc |-> "idle", handler |-> "-", new_enrollment |-> None,
     active_toast |-> "-", duplicate |-> <<"-", "-">>,
     insert_rejected |-> FALSE, outcome |-> NoCall]

\* the request has returned (or raised) with `call`
Returned(req, call) == [req EXCEPT !.pc = "done", !.outcome = call]

\* new_enrollment of handle_select_course and of handle_manual_enroll_submit
select_new_enrollment(u, course_id_str) ==
    Enrollment(FindUser("google_sub", session[u].google_sub[1])[1].id,
               course_id_str, session[u].current_academic_year, SUCCESS)

manual_new_enrollment(student_identifier, selected_course_id) ==
    Enrollment(FoundUser(student_identifier)[1].id, selected_course_id[1],
               get_current[1].academic_year, SUCCESS)

\* From the call to the return of check_course_conflict: `result` is what the
\* handler does on the enrollments it has read; it goes on to find_one only
\* if the checker was called and returned None.
Checking(r, H, result, new_enrollment, active_toast, duplicate) ==
    /\ requests[r].pc \in {"idle", "done"}
    /\ requests' =
          [requests EXCEPT ![r] =
              IF result.call.conflict = NotCalled \/ result.call.conflict # None
              THEN Returned([NoRequest EXCEPT !.handler = H], result.call)
              ELSE [NoRequest EXCEPT !.pc = "checked", !.handler = H,
                                     !.new_enrollment = Some(new_enrollment),
                                     !.active_toast = active_toast,
                                     !.duplicate = duplicate]]
    /\ UNCHANGED appVars
    /\ UNCHANGED slotVars
    /\ UNCHANGED checkerVars
    /\ UNCHANGED ctorVars
    /\ UNCHANGED adminVars

\* handle_select_course up to the conflict check (lines 206-255)
select_course_check(r, u, course_id_str) ==
    LET current_user_db ==
            IF session[u].google_sub = None THEN None
            ELSE FindUser("google_sub", session[u].google_sub[1])
        found == IF current_user_db = None THEN {}
                 ELSE existing_enrollments(current_user_db[1].id,
                                           session[u].current_academic_year)
    IN  \E existing \in Orderings(found) :
            Checking(r, "handle_select_course",
                     SelectCourse(u, course_id_str, existing),
                     select_new_enrollment(u, course_id_str),
                     "info", <<"exception", "DuplicateKeyError">>)

\* handle_manual_enroll_submit up to the conflict check (lines 171-209)
manual_enroll_check(r, student_identifier, selected_course_id) ==
    LET found_user == FoundUser(student_identifier)
        current_ay_setting == get_current
        found == IF found_user = None \/ current_ay_setting = None THEN {}
                 ELSE existing_enrollments(found_user[1].id,
                                           current_ay_setting[1].academic_year)
    IN  \E existing \in Orderings(found) :
            Checking(r, "handle_manual_enroll_submit",
                     ManualEnroll(student_identifier, selected_course_id, existing),
                     manual_new_enrollment(student_identifier, selected_course_id),
                     "error", <<"error", "manual enrollment failed">>)

\* The find_one of the same course and the is_active_enrollment test
\* (course_selection_state.py 259-265, manager_enrollments_state.py 212-218).
find_one_enrolled(r) ==
    LET req == requests[r]
        e == req.new_enrollment[1]
        result == check_then_insert(req.handler, None,
                                    FindEnrollment(e.user_id, e.course_id, e.academic_year),
                                    e, req.active_toast, req.duplicate)
    IN  /\ req.pc = "checked"
        /\ requests' =
              [requests EXCEPT ![r] =
                  IF result.call.message = "already enrolled"
                  THEN Returned(req, result.call)
                  ELSE [req EXCEPT !.pc = "insert"]]
        /\ UNCHANGED appVars
        /\ UNCHANGED slotVars
        /\ UNCHANGED checkerVars
        /\ UNCHANGED ctorVars
        /\ UNCHANGED adminVars

\* new_enrollment.insert() and what follows it: the unique index admits the
\* document or the insert raises DuplicateKeyError.
insert_enrollment(r) ==
    LET req == requests[r]
        e == req.new_enrollment[1]
        result == check_then_insert(req.handler, None, None, e,
                                    req.active_toast, req.duplicate)
    IN  /\ req.pc = "insert"
        /\ enrollments' = enrollments \cup {insert(x) : x \in result.inserted}
        /\ requests' =
              [requests EXCEPT ![r] =
                  Returned([req EXCEPT !.insert_rejected = (result.inserted = {})],
                           result.call)]
        /\ UNCHANGED <<courses, settings, now, session, last_call>>
        /\ UNCHANGED slotVars
        /\ UNCHANGED checkerVars
        /\ UNCHANGED ctorVars
        /\ UNCHANGED adminVars

\* The student is logged in, the course selection page has been loaded with
\* the active setting of 113-1 (no registration times), nobody is enrolled.
InitRace ==
    /\ courses \in Catalogues
    /\ enrollments = {}
    /\ settings = <<Setting("113-1", None, None, TRUE)>>
    /\ now = 1
    /\ session = [u \in SessionUsers |->
                    [token_is_valid |-> TRUE,
                     google_sub |-> Some(UserDoc(u).google_sub),
                     groups |-> UserDoc(u).groups,
                     current_academic_year |-> "113-1",
                     is_registration_open |-> TRUE,
                     registration_time_message |-> "open, no times set"]]
    /\ last_call = NoCall
    /\ requests = [r \in RequestIds |-> NoRequest]
    /\ fields = Idle /\ constructed = Idle
    /\ user_groups = Idle /\ csv_file = Idle
    /\ slot_a = Idle /\ slot_b = Idle /\ overlap_result = Idle
    /\ selected_course = Idle /\ enrolled_courses = Idle
    /\ current_term = Idle /\ conflict_reason = Idle

NextRace ==
    \/ \E u \in SessionUsers, c \in CourseIdInputs :
          select_course_check("self_service", u, c)
    \/ \E sid \in StudentIdentifierInputs, c \in ManualCourseInputs :
          manual_enroll_check("staff", sid, c)
    \/ \E r \in RequestIds : find_one_enrolled(r)
    \/ \E r \in RequestIds : insert_enrollment(r)

SpecRace == InitRace /\ [][NextRace]_vars

(***************************************************************************)
(* Properties of the concurrent workflows (checked under SpecRace).        *)
(***************************************************************************)
Succeeded(r) ==
    /\ requests[r].pc = "done"
    /\ requests[r].outcome.toast = "success"

\* C17: of two concurrent attempts for the same student and two different
\* courses of the same term whose time slots overlap, at most one ends with
\* an inserted enrollment.
C17_RacingAttemptsSerialized ==
    \A r1 \in RequestIds :
        \A r2 \in RequestIds \ {r1} :
            (Succeeded(r1) /\ Succeeded(r2))
            => LET e1 == requests[r1].new_enrollment[1]
                   e2 == requests[r2].new_enrollment[1]
               IN  ~(/\ e1.user_id = e2.user_id
                     /\ e1.academic_year = e2.academic_year
                     /\ e1.course_id # e2.course_id
                     /\ CoursesOverlap(courses[e1.course_id], courses[e2.course_id]))

\* The messages of the duplicate/conflict vocabulary: the one both handlers
\* show for a reason of the checker and the one for an active enrollment of
\* the same course.
ConflictMessages == {"enrollment failed: conflict", "already enrolled"}

\* C18: a handler whose insert the unique index refused ends with an error
\* message of the duplicate/conflict vocabulary, as for a conflict the checker
\* found, not with an escaped exception or the generic failure message.
C18_DuplicateReportedAsConflict ==
    \A r \in RequestIds :
        (requests[r].pc = "done" /\ requests[r].insert_rejected)
        => /\ requests[r].outcome.toast \in {"error", "info"}
           /\ requests[r].outcome.message \in ConflictMessages

\* C19: at most one stored Enrollment per (user, course, academic_year), under
\* every interleaving of the two workflows; of two attempts for the same
\* student and course at most one insert takes effect.
C19_OneEnrollmentPerUserCourseYear ==
    /\ \A e1 \in enrollments :
          \A e2 \in enrollments : SameKey(e1, e2) => e1 = e2
    /\ \A r1 \in RequestIds :
          \A r2 \in RequestIds \ {r1} :
              (Succeeded(r1) /\ Succeeded(r2))
              => ~SameKey(requests[r1].new_enrollment[1], requests[r2].new_enrollment[1])

\* both sessions passed the conflict check and the find_one for the same
\* student and course; one insert went through, the other was refused
C19_Witness ==
    /\ Succeeded("staff")
    /\ requests["self_service"].pc = "done"
    /\ requests["self_service"].insert_rejected
    /\ SameKey(requests["self_service"].new_enrollment[1],
               requests["staff"].new_enrollment[1])
    /\ Cardinality(enrollments) = 1

(***************************************************************************)
(* SpecWindow: the self-service workflow while the clock advances and the  *)
(* academic year setting, with registration times, is replaced.            *)
(***************************************************************************)
\* datetime.utcnow() has moved on
advance_clock ==
    /\ now < MaxNow
    /\ now' = now + 1
    /\ UNCHANGED <<courses, enrollments, settings, session, last_call>>
    /\ UNCHANGED slotVars
    /\ UNCHANGED checkerVars
    /\ UNCHANGED raceVars
    /\ UNCHANGED ctorVars
    /\ UNCHANGED adminVars

WindowStartInputs == {None, Some(MaxNow)}
WindowEndInputs == {None, Some(1)}

NextWindow ==
    \/ \E ay \in AcademicYears, rs \in WindowStartInputs, re \in WindowEndInputs :
          set_current(ay, rs, re)
    \/ advance_clock
    \/ \E u \in SessionUsers : on_success(u)
    \/ \E u \in SessionUsers : on_page_load(u)
    \/ \E u \in SessionUsers, c \in CourseIdInputs : handle_select_course(u, c)

SpecWindow == Init /\ [][NextWindow]_vars

(***************************************************************************)
(* Properties of the registration window (checked under SpecWindow).       *)
(***************************************************************************)
\* registration is open for the active setting at the current time
RegistrationOpenNow ==
    /\ get_current # None
    /\ LET start_time == get_current[1].registration_start_time
           end_time == get_current[1].registration_end_time
       IN  /\ start_time # None => start_time[1] <= now
           /\ end_time # None => now <= end_time[1]

\* C21: handle_select_course inserts an Enrollment only if, at the time of the
\* call, registration is open for the active setting, the caller is a logged-in
\* student and the course is open for registration and of the current
\* academic year.
C21_InsertOnlyWhileRegistrationOpen ==
    [][(enrollments' # enrollments /\ last_call'.handler = "handle_select_course")
       => \A e \in enrollments' \ enrollments :
              /\ RegistrationOpenNow
              /\ \E u \in SessionUsers :
                    /\ session[u].token_is_valid
                    /\ UserDoc(u).id = e.user_id
                    /\ STUDENT \in UserDoc(u).groups
              /\ courses[e.course_id].is_open_for_registration
              /\ courses[e.course_id].academic_year = get_current[1].academic_year]_vars

(***************************************************************************)
(* SpecSettings: set_current as it runs, one step per awaited database     *)
(* call, for two manager sessions, next to the page load of a student that *)
(* calls get_current.                                                       *)
(***************************************************************************)
SettingCallers == {"manager_1", "manager_2"}

NoSettingCall == [pc |-> "idle", academic_year |-> ""]

InProgress == {m \in SettingCallers : requests[m].pc = "updated"}

\* await cls.find({"is_active": True}).update_many({"$set": {"is_active": False}})
set_current_update_many(m, academic_year) ==
    /\ requests[m].pc = "idle"
    /\ Len(settings) + Cardinality(InProgress) < MaxSettings
    /\ settings' = [k \in 1..Len(settings) |-> [settings[k] EXCEPT !.is_active = FALSE]]
    /\ requests' = [requests EXCEPT ![m] = [pc |-> "updated", academic_year |-> academic_year]]
    /\ UNCHANGED <<courses, enrollments, now, session, last_call>>
    /\ UNCHANGED slotVars
    /\ UNCHANGED checkerVars
    /\ UNCHANGED ctorVars
    /\ UNCHANGED adminVars

\* await new_setting.insert()
set_current_insert(m) ==
    /\ requests[m].pc = "updated"
    /\ settings' = Append(settings, Setting(requests[m].academic_year, None, None, TRUE))
    /\ requests' = [requests EXCEPT ![m] = NoSettingCall]
    /\ UNCHANGED <<courses, enrollments, now, session, last_call>>
    /\ UNCHANGED slotVars
    /\ UNCHANGED checkerVars
    /\ UNCHANGED ctorVars
    /\ UNCHANGED adminVars

InitSettings ==
    /\ courses \in Catalogues
    /\ enrollments = {}
    /\ settings = <<>>
    /\ now = 1
    /\ session = [u \in SessionUsers |-> NewSession]
    /\ last_call = NoCall
    /\ requests = [m \in SettingCallers |-> NoSettingCall]
    /\ fields = Idle /\ constructed = Idle
    /\ user_groups = Idle /\ csv_file = Idle
    /\ slot_a = Idle /\ slot_b = Idle /\ overlap_result = Idle
    /\ selected_course = Idle /\ enrolled_courses = Idle
    /\ current_term = Idle /\ conflict_reason = Idle

NextSettings ==
    \/ \E m \in SettingCallers, ay \in AcademicYears : set_current_update_many(m, ay)
    \/ \E m \in SettingCallers : set_current_insert(m)
    \/ \E u \in SessionUsers : on_success(u)
    \/ \E u \in SessionUsers : on_page_load(u)

SpecSettings == InitSettings /\ [][NextSettings]_vars

(***************************************************************************)
(* Properties of the concurrent set_current (checked under SpecSettings).  *)
(***************************************************************************)
ActiveSettings == {k \in 1..Len(settings) : settings[k].is_active}

\* C30: once a setting has been activated, get_current returns an active
\* setting in every reachable state, and concurrent set_current calls never
\* leave more than one active setting.
C30_AlwaysExactlyOneActiveSetting ==
    settings # <<>>
    => /\ get_current # None
       /\ get_current[1].is_active
       /\ Cardinality(ActiveSettings) <= 1

(***************************************************************************)
(* SpecCancelled: the enrollment workflows over a database that holds an   *)
(* earlier, cancelled enrollment of student u1 in course c1.               *)
(***************************************************************************)
CancelledStatuses == {CANCELLED_BY_STUDENT, CANCELLED_CONFLICT, CANCELLED_ADMIN}

EarlierEnrollments ==
    {{[Enrollment("u1", "c1", "113-1", status) EXCEPT !.id = Some(1)]} :
        status \in CancelledStatuses}

InitCancelled ==
    /\ courses \in Catalogues
    /\ enrollments \in EarlierEnrollments
    /\ settings = <<>>
    /\ now = 1
    /\ session = [u \in SessionUsers |-> NewSession]
    /\ last_call = NoCall
    /\ requests = Idle /\ fields = Idle /\ constructed = Idle
    /\ user_groups = Idle /\ csv_file = Idle
    /\ slot_a = Idle /\ slot_b = Idle /\ overlap_result = Idle
    /\ selected_course = Idle /\ enrolled_courses = Idle
    /\ current_term = Idle /\ conflict_reason = Idle

SpecCancelled == InitCancelled /\ [][Next]_vars

(***************************************************************************)
(* Properties of the insert (checked under SpecCancelled).                 *)
(***************************************************************************)
\* the call ended in the DuplicateKeyError of new_enrollment.insert()
InsertRefused ==
    \/ /\ last_call.handler = "handle_select_course"
       /\ last_call.toast = "exception"
    \/ /\ last_call.handler = "handle_manual_enroll_submit"
       /\ last_call.message = "manual enrollment failed"
       /\ last_call.conflict # NotCalled

T0850 == <<"0", "8", ":", "5", "0">>

\* EMPTY_TIME_SLOT_DICT, the untouched slot of a form (its location is "", as
\* is the location of every slot of the forms below)
EMPTY_TIME_SLOT_DICT ==
    [week_number |-> None, day_of_week |-> 1, period |-> "D1",
     start_time |-> T0800, end_time |-> T0850]

SatD0 == [week_number |-> None, day_of_week |-> 6, period |-> "D0",
          start_time |-> T0800, end_time |-> T0900]

\* edit_course_form_data as the manager submits it
CourseForm(ay, code, slots, open) ==
    [academic_year |-> ay, course_code |-> code, course_name |-> course_name_of(code),
     time_slots |-> slots, is_open_for_registration |-> open]

EditForms ==
    {CourseForm("113-1", "MATH101", <<MonD1>>, "yes"),
     CourseForm("113-1", "ENG201", <<MonD1>>, "yes"),
     CourseForm("112-2", "ENG201", <<EMPTY_TIME_SLOT_DICT, TueD1>>, "yes"),
     CourseForm("113-1", "MATH101", <<SatD0>>, "no")}

EditingCourseIds == {None, Some("c1"), Some("c2"), Some("c9"), Some("not-an-id")}

\* [CourseTimeSlot(**ts_data) for ts_data in time_slots if ts_data != EMPTY_TIME_SLOT_DICT]
time_slots_models(form) ==
    LET kept == SelectSeq(form.time_slots, LAMBDA ts : ts # EMPTY_TIME_SLOT_DICT)
    IN  IF \A k \in 1..Len(kept) : CourseTimeSlot(kept[k])
        THEN Some(kept) ELSE ValueError

\* Course.find_one(academic_year, course_code, id != own id)
OtherCourseWithKey(ay, code, own) ==
    \E c \in DOMAIN courses \ own :
        courses[c].academic_year = ay /\ courses[c].course_code = code

\* ManagerCoursesState.handle_save_edited_course: the toast and the course
\* collection it leaves.
SaveEditedCourse(editing_course_id, form) ==
    LET H == "handle_save_edited_course"
    IN  IF editing_course_id = None
        THEN [call |-> Outcome(H, "error", "no course to edit", NotCalled),
              courses |-> courses]
        ELSE IF editing_course_id[1] \notin ObjectIds
        THEN [call |-> Outcome(H, "error", "unexpected error", NotCalled),
              courses |-> courses]
        ELSE IF editing_course_id[1] \notin DOMAIN courses
        THEN [call |-> Outcome(H, "error", "course not found", NotCalled),
              courses |-> courses]
        ELSE LET id == editing_course_id[1]
                 course_to_update == courses[id]
             IN  IF /\ \/ course_to_update.academic_year # form.academic_year
                       \/ course_to_update.course_code # form.course_code
                    /\ OtherCourseWithKey(form.academic_year, form.course_code, {id})
                 THEN [call |-> Outcome(H, "error", "course code in use", NotCalled),
                       courses |-> courses]
                 ELSE IF time_slots_models(form) = ValueError
                 THEN [call |-> Outcome(H, "error", "validation error", NotCalled),
                       courses |-> courses]
                 ELSE [call |-> Outcome(H, "success", "course saved", NotCalled),
                       courses |->
                          [courses EXCEPT ![id] =
                              StoredCourse(form.academic_year, form.course_code,
                                           time_slots_models(form)[1],
                                           form.is_open_for_registration = "yes")]]

handle_save_edited_course(editing_course_id, form) ==
    LET result == SaveEditedCourse(editing_course_id, form)
    IN  /\ courses' = result.courses
        /\ last_call' = result.call
        /\ UNCHANGED <<enrollments, settings, now, session>>
        /\ UNCHANGED slotVars
        /\ UNCHANGED checkerVars
        /\ UNCHANGED raceVars
        /\ UNCHANGED ctorVars
        /\ UNCHANGED adminVars

\* Enrollment.find(Enrollment.course_id.id == obj_id).count()
enrollments_exist(obj_id) == Cardinality({e \in enrollments : e.course_id = obj_id})

\* A variant that counts the active enrollments only:
DeleteCourse_counting_active_only(course_id_str) ==
    LET H == "handle_delete_course_confirmed"
    IN  IF course_id_str \notin ObjectIds
        THEN [call |-> Outcome(H, "error", "unexpected error", NotCalled),
              courses |-> courses]
        ELSE IF \E e \in enrollments :
                    e.course_id = course_id_str /\ is_active_enrollment(e)
        THEN [call |-> Outcome(H, "error", "course has enrollments", NotCalled),
              courses |-> courses]
        ELSE IF course_id_str \in DOMAIN courses
        THEN [call |-> Outcome(H, "info", "course deleted", NotCalled),
              courses |-> [c \in DOMAIN courses \ {course_id_str} |-> courses[c]]]
        ELSE [call |-> Outcome(H, "error", "course not found", NotCalled),
              courses |-> courses]

\* ManagerCoursesState.handle_delete_course_confirmed: the toast and the
\* course collection it leaves.
DeleteCourse(course_id_str) ==
    LET H == "handle_delete_course_confirmed"
    IN  IF course_id_str \notin ObjectIds
        THEN [call |-> Outcome(H, "error", "unexpected error", NotCalled),
              courses |-> courses]
        ELSE IF enrollments_exist(course_id_str) > 0
        THEN [call |-> Outcome(H, "error", "course has enrollments", NotCalled),
              courses |-> courses]
        ELSE IF course_id_str \in DOMAIN courses
        THEN [call |-> Outcome(H, "info", "course deleted", NotCalled),
              courses |-> [c \in DOMAIN courses \ {course_id_str} |-> courses[c]]]
        ELSE [call |-> Outcome(H, "error", "course not found", NotCalled),
              courses |-> courses]

handle_delete_course_confirmed(course_id_str) ==
    LET result == DeleteCourse(course_id_str)
    IN  /\ courses' = result.courses
        /\ last_call' = result.call
        /\ UNCHANGED <<enrollments, settings, now, session>>
        /\ UNCHANGED slotVars
        /\ UNCHANGED checkerVars
        /\ UNCHANGED raceVars
        /\ UNCHANGED ctorVars
        /\ UNCHANGED adminVars

InitManage ==
    /\ courses \in Catalogues
    /\ enrollments \in {{}} \cup EarlierEnrollments
    /\ settings = <<Setting("113-1", None, None, TRUE)>>
    /\ now = 1
    /\ session = [u \in SessionUsers |->
                    [token_is_valid |-> TRUE,
                     google_sub |-> Some(UserDoc(u).google_sub),
                     groups |-> UserDoc(u).groups,
                     current_academic_year |-> "113-1",
                     is_registration_open |-> TRUE,
                     registration_time_message |-> "open, no times set"]]
    /\ last_call = NoCall
    /\ requests = Idle /\ fields = Idle /\ constructed = Idle
    /\ user_groups = Idle /\ csv_file = Idle
    /\ slot_a = Idle /\ slot_b = Idle /\ overlap_result = Idle
    /\ selected_course = Idle /\ enrolled_courses = Idle
    /\ current_term = Idle /\ conflict_reason = Idle

NextManage ==
    \/ \E u \in SessionUsers, c \in CourseIdInputs : handle_select_course(u, c)
    \/ \E id \in EditingCourseIds, form \in EditForms : handle_save_edited_course(id, form)
    \/ \E c \in CourseIdInputs : handle_delete_course_confirmed(c)

SpecManage == InitManage /\ [][NextManage]_vars

(***************************************************************************)
(* Properties of course management (checked under SpecManage).             *)
(***************************************************************************)
\* C23: handle_delete_course_confirmed deletes a course only if no Enrollment
\* of any status references it, so every Enrollment references a course that
\* still exists, and a rejected delete leaves the course set unchanged.
C23_DeleteKeepsReferencedCourses ==
    [][/\ DOMAIN courses' # DOMAIN courses
          => \A c \in DOMAIN courses \ DOMAIN courses' :
                 \A e \in enrollments : e.course_id # c
       /\ \A e \in enrollments' : e.course_id \in DOMAIN courses'
       /\ (/\ last_call'.handler = "handle_delete_course_confirmed"
           /\ last_call'.toast = "error")
          => courses' = courses]_vars

C23_Witness ==
    /\ last_call.handler = "handle_delete_course_confirmed"
    /\ last_call.message = "course deleted"
    /\ enrollments # {}
    /\ Cardinality(DOMAIN courses) = 1

\* the academic_year copied into an active Enrollment is that of its course
YearOfCourseKept ==
    \A e \in enrollments :
        (is_active_enrollment(e) /\ e.course_id \in DOMAIN courses)
        => e.academic_year = courses[e.course_id].academic_year

\* no student holds two active enrollments of one academic year whose courses
\* share a course_code or overlap in time
NoStudentDoubleBooked ==
    \A u \in Users :
        \A ay \in AcademicYears :
            \A e1 \in ActiveOf(u, ay) :
                \A e2 \in ActiveOf(u, ay) \ {e1} :
                    (e1.course_id \in DOMAIN courses /\ e2.course_id \in DOMAIN courses)
                    => /\ courses[e1.course_id].course_code
                              # courses[e2.course_id].course_code
                       /\ ~CoursesOverlap(courses[e1.course_id], courses[e2.course_id])

\* C29: after handle_save_edited_course has changed the time_slots, course_code
\* or academic_year of a course with active enrollments, no student is double
\* booked and every active Enrollment's academic_year equals that of its course.
C29_EditKeepsNoDoubleBooking ==
    last_call.handler = "handle_save_edited_course"
    => NoStudentDoubleBooked /\ YearOfCourseKept

(***************************************************************************)
(* SpecRoles: the role editor of the user administration page.  user_groups *)
(* holds the groups list of every User document; session is the state of   *)
(* the administrator's browser session.                                     *)
(***************************************************************************)
SYSTEM_ADMIN == "SYSTEM_ADMIN"
UserGroup == {STUDENT, COURSE_MANAGER, SYSTEM_ADMIN, AUTHENTICATED_USER}

Range(f) == {f[k] : k \in DOMAIN f}

\* User documents: a1 is a system administrator, a2 has the groups of a user
\* created at the first login.
AccountIds == {"a1", "a2"}
account_email(a) == IF a = "a1" THEN "admin@school" ELSE "staff@school"
InitialGroups ==
    [a \in AccountIds |->
        IF a = "a1" THEN <<SYSTEM_ADMIN, AUTHENTICATED_USER>>
        ELSE <<STUDENT, AUTHENTICATED_USER>>]

\* Values the client may send: ids of users, a well-formed id of no user, a
\* text PydanticObjectId rejects; lists of role values of the checkbox group.
UserObjectIds == AccountIds \cup {"a9"}
EditingUserIds == {None} \cup {Some(a) : a \in UserObjectIds \cup {"not-an-id"}}
MaxRoles == 2
RoleLists == SeqsUpTo({COURSE_MANAGER, SYSTEM_ADMIN, "no such role"}, MaxRoles)

\* get_user_role_values
get_user_role_values(groups) ==
    SelectSeq(groups, LAMBDA g : g # AUTHENTICATED_USER)

\* start_edit_user_roles(user)
start_edit_user_roles(a) ==
    /\ session' = [session EXCEPT !.editing_user_id = Some(a),
                                  !.roles_for_edit_modal =
                                      get_user_role_values(user_groups[a])]
    /\ UNCHANGED <<courses, enrollments, settings, now, last_call>>
    /\ UNCHANGED slotVars
    /\ UNCHANGED checkerVars
    /\ UNCHANGED raceVars
    /\ UNCHANGED ctorVars
    /\ UNCHANGED adminVars

\* set_roles_for_edit_modal, the on_change of the checkbox group
set_roles_for_edit_modal(roles) ==
    /\ session' = [session EXCEPT !.roles_for_edit_modal = roles]
    /\ UNCHANGED <<courses, enrollments, settings, now, last_call>>
    /\ UNCHANGED slotVars
    /\ UNCHANGED checkerVars
    /\ UNCHANGED raceVars
    /\ UNCHANGED ctorVars
    /\ UNCHANGED adminVars

\* set_editing_user_id, the setter of the state variable
set_editing_user_id(id) ==
    /\ session' = [session EXCEPT !.editing_user_id = id]
    /\ UNCHANGED <<courses, enrollments, settings, now, last_call>>
    /\ UNCHANGED slotVars
    /\ UNCHANGED checkerVars
    /\ UNCHANGED raceVars
    /\ UNCHANGED ctorVars
    /\ UNCHANGED adminVars

\* new_groups_enum: the roles of the form, AUTHENTICATED_USER appended if absent
new_groups_enum(roles) ==
    IF AUTHENTICATED_USER \in Range(roles) THEN roles
    ELSE Append(roles, AUTHENTICATED_USER)

RolesKept(H) ==
    [call |-> Outcome(H, "error", "-", NotCalled), user_groups |-> user_groups,
     session |-> session]

\* A variant without the check of the administrator's own account:
SaveUserRoles_without_self_check ==
    LET H == "handle_save_user_roles"
        id == session.editing_user_id
        roles == session.roles_for_edit_modal
    IN  IF id = None
        THEN [RolesKept(H) EXCEPT !.call.message = "no user to edit"]
        ELSE IF id[1] \notin UserObjectIds
        THEN [RolesKept(H) EXCEPT !.call.message = "unexpected error"]
        ELSE IF id[1] \notin DOMAIN user_groups
        THEN [RolesKept(H) EXCEPT !.call.message = "user not found"]
        ELSE IF \E k \in 1..Len(roles) : roles[k] \notin UserGroup
        THEN [RolesKept(H) EXCEPT !.call.message = "invalid role value"]
        ELSE [call |-> Outcome(H, "success", "roles saved", NotCalled),
              user_groups |-> [user_groups EXCEPT ![id[1]] = new_groups_enum(roles)],
              session |-> [session EXCEPT !.editing_user_id = None,
                                          !.roles_for_edit_modal = <<>>]]

\* AdminUsersState.handle_save_user_roles: the toast, the User documents and
\* the session it leaves.
SaveUserRoles ==
    LET H == "handle_save_user_roles"
        id == session.editing_user_id
        roles == session.roles_for_edit_modal
    IN  IF id = None
        THEN [RolesKept(H) EXCEPT !.call.message = "no user to edit"]
        ELSE IF id[1] \notin UserObjectIds
        THEN [RolesKept(H) EXCEPT !.call.message = "unexpected error"]
        ELSE IF id[1] \notin DOMAIN user_groups
        THEN [RolesKept(H) EXCEPT !.call.message = "user not found"]
        ELSE IF \E k \in 1..Len(roles) : roles[k] \notin UserGroup
        THEN [RolesKept(H) EXCEPT !.call.message = "invalid role value"]
        ELSE IF /\ SYSTEM_ADMIN \in Range(user_groups[id[1]])
                /\ account_email(id[1]) = session.tokeninfo_email
                /\ SYSTEM_ADMIN \notin Range(new_groups_enum(roles))
        THEN [RolesKept(H) EXCEPT !.call.message = "own admin role cannot be removed"]
        ELSE [call |-> Outcome(H, "success", "roles saved", NotCalled),
              user_groups |-> [user_groups EXCEPT ![id[1]] = new_groups_enum(roles)],
              session |-> [session EXCEPT !.editing_user_id = None,
                                          !.roles_for_edit_modal = <<>>]]

handle_save_user_roles ==
    /\ user_groups' = SaveUserRoles.user_groups
    /\ session' = SaveUserRoles.session
    /\ last_call' = SaveUserRoles.call
    /\ UNCHANGED <<courses, enrollments, settings, now, csv_file>>
    /\ UNCHANGED slotVars
    /\ UNCHANGED checkerVars
    /\ UNCHANGED raceVars
    /\ UNCHANGED ctorVars

InitRoles ==
    /\ user_groups = InitialGroups
    /\ csv_file = Idle
    /\ session \in {[tokeninfo_email |-> account_email(a), editing_user_id |-> None,
                     roles_for_edit_modal |-> <<>>] : a \in AccountIds}
    /\ last_call = NoCall
    /\ courses = Idle /\ enrollments = Idle /\ settings = Idle /\ now = Idle
    /\ requests = Idle /\ fields = Idle /\ constructed = Idle
    /\ slot_a = Idle /\ slot_b = Idle /\ overlap_result = Idle
    /\ selected_course = Idle /\ enrolled_courses = Idle
    /\ current_term = Idle /\ conflict_reason = Idle

NextRoles ==
    \/ \E a \in AccountIds : start_edit_user_roles(a)
    \/ \E roles \in RoleLists : set_roles_for_edit_modal(roles)
    \/ \E id \in EditingUserIds : set_editing_user_id(id)
    \/ handle_save_user_roles

SpecRoles == InitRoles /\ [][NextRoles]_vars

(***************************************************************************)
(* Properties of the role editor (checked under SpecRoles).                *)
(***************************************************************************)
\* the user the form of the session is about, if stored
EditedUsers ==
    IF session.editing_user_id = None THEN {}
    ELSE {session.editing_user_id[1]} \cap DOMAIN user_groups

\* C26: every user saved by handle_save_user_roles has AUTHENTICATED_USER in
\* groups, and an operation in which a system administrator would remove
\* SYSTEM_ADMIN from their own account is rejected with the groups unchanged.
C26_SavedRolesKeepBaseAndOwnAdmin ==
    [][/\ \A a \in DOMAIN user_groups :
              \/ user_groups'[a] = user_groups[a] /\ a \notin EditedUsers
              \/ AUTHENTICATED_USER \in Range(user_groups'[a])
       /\ \A a \in EditedUsers :
              (/\ SYSTEM_ADMIN \in Range(user_groups[a])
               /\ account_email(a) = session.tokeninfo_email
               /\ SYSTEM_ADMIN \notin Range(session.roles_for_edit_modal))
              => /\ user_groups' = user_groups
                 /\ last_call' # last_call => last_call'.toast = "error"]_vars

C26_Witness ==
    /\ last_call.message = "own admin role cannot be removed"
    /\ session.tokeninfo_email = "admin@school"
    /\ COURSE_MANAGER \in Range(user_groups["a2"])
    /\ SYSTEM_ADMIN \in Range(user_groups["a1"])

(***************************************************************************)
(* SpecCatalogue: a manager adds and edits courses and imports the file    *)
(* csv_file, any number of times.                                           *)
(***************************************************************************)
\* ObjectIds of the documents the operations insert, in the order of insertion
NewCourseIds == <<"n1", "n2", "n3", "n4">>
Inserted_courses(cs) == {c \in DOMAIN cs : \E k \in DOMAIN NewCourseIds : NewCourseIds[k] = c}
NewCourseId(cs) == NewCourseIds[Cardinality(Inserted_courses(cs)) + 1]

\* Course.find_one(academic_year, course_code) on the collection cs
existing_course(cs, ay, code) ==
    \E c \in DOMAIN cs : cs[c].academic_year = ay /\ cs[c].course_code = code

\* new_course_obj.insert()
insert_course(cs, course) ==
    [c \in DOMAIN cs \cup {NewCourseId(cs)} |->
        IF c \in DOMAIN cs THEN cs[c] ELSE course]

AddForms ==
    {CourseForm("113-1", "MATH101", <<MonD1>>, "yes"),
     CourseForm("113-1", "ENG201", <<SatD0>>, "yes"),
     CourseForm("113-1", "", <<MonD1>>, "yes"),
     CourseForm("112-2", "MATH101", <<TueD1, MonD1Week2>>, "yes")}

\* A variant without the find_one for an existing course:
AddNewCourse_without_existing_check(form) ==
    LET H == "handle_add_new_course"
    IN  IF form.academic_year = "" \/ form.course_code = "" \/ form.course_name = ""
        THEN [call |-> Outcome(H, "error", "required fields missing", NotCalled),
              courses |-> courses]
        ELSE IF time_slots_models(form) = ValueError
        THEN [call |-> Outcome(H, "error", "validation error", NotCalled),
              courses |-> courses]
        ELSE IF Cardinality(Inserted_courses(courses)) >= Len(NewCourseIds)
        THEN [call |-> Outcome(H, "error", "unexpected error", NotCalled),
              courses |-> courses]
        ELSE [call |-> Outcome(H, "success", "course added", NotCalled),
              courses |->
                 insert_course(courses,
                     StoredCourse(form.academic_year, form.course_code,
                                  time_slots_models(form)[1],
                                  form.is_open_for_registration = "yes"))]

\* ManagerCoursesState.handle_add_new_course: the toast and the course
\* collection it leaves.
AddNewCourse(form) ==
    LET H == "handle_add_new_course"
    IN  IF form.academic_year = "" \/ form.course_code = "" \/ form.course_name = ""
        THEN [call |-> Outcome(H, "error", "required fields missing", NotCalled),
              courses |-> courses]
        ELSE IF existing_course(courses, form.academic_year, form.course_code)
        THEN [call |-> Outcome(H, "error", "course exists", NotCalled),
              courses |-> courses]
        ELSE IF time_slots_models(form) = ValueError
        THEN [call |-> Outcome(H, "error", "validation error", NotCalled),
              courses |-> courses]
        ELSE [call |-> Outcome(H, "success", "course added", NotCalled),
              courses |->
                 insert_course(courses,
                     StoredCourse(form.academic_year, form.course_code,
                                  time_slots_models(form)[1],
                                  form.is_open_for_registration = "yes"))]

handle_add_new_course(form) ==
    LET result == AddNewCourse(form)
    IN  /\ courses' = result.courses
        /\ last_call' = result.call
        /\ UNCHANGED <<enrollments, settings, now, session>>
        /\ UNCHANGED adminVars
        /\ UNCHANGED slotVars
        /\ UNCHANGED checkerVars
        /\ UNCHANGED raceVars
        /\ UNCHANGED ctorVars

\* A row of the CSV file as csv.DictReader yields it: the academic year, the
\* course code and the columns of the time slot.
CSVRow(ay, code, slot) == [academic_year |-> ay, course_code |-> code, slot |-> slot]

Day8D1 == [week_number |-> None, day_of_week |-> 8, period |-> "D1",
           start_time |-> T0800, end_time |-> T0900]

SatD0NoColon == [SatD0 EXCEPT !.start_time = TNoColon]

RowPool ==
    {CSVRow("113-1", "MATH101", MonD1),
     CSVRow("", "MATH101", TueD1),
     CSVRow("112-2", "ENG201", SatD0NoColon),
     CSVRow("113-1", "ENG201", Day8D1)}

\* file_content_bytes: whether it decodes, and its rows
CSVFile(rows) == [decodable |-> TRUE, rows |-> rows]
Undecodable == [decodable |-> FALSE, rows |-> <<>>]
CSVFiles == {CSVFile(rows) : rows \in SeqsUpTo(RowPool, MaxRows)} \cup {Undecodable}
DefaultAcademicYears == {"113-1"}

\* The fields of a row CourseCSVRow(**cleaned_row) rejects
CourseCSVRowErrors(row) ==
    IF row.slot.day_of_week >= 1 /\ row.slot.day_of_week <= 7
    THEN <<>> ELSE <<"day_of_week">>

\* The fields csv_row_obj.to_time_slot() rejects
to_time_slot_errors(row) ==
    (IF validate_period(row.slot.period) THEN <<>> ELSE <<"period">>)
    \o (IF validate_time_format(row.slot.start_time) THEN <<>> ELSE <<"start_time">>)
    \o (IF validate_time_format(row.slot.end_time) THEN <<>> ELSE <<"end_time">>)

course_key(row, default_academic_year) ==
    <<IF row.academic_year = "" THEN default_academic_year ELSE row.academic_year,
      row.course_code>>

RowErrors(row_number, error_fields) ==
    [k \in 1..Len(error_fields) |->
        [kind |-> "row", row |-> row_number, field |-> error_fields[k]]]

Keys(parsed) == {parsed[k].key : k \in 1..Len(parsed)}

\* A variant of the first loop that stops at the first rejected row:
RECURSIVE ParseRows_stopping_at_rejected_row(_, _, _, _)
ParseRows_stopping_at_rejected_row(rows, i, default_academic_year, acc) ==
    IF i > Len(rows) THEN acc
    ELSE LET row == rows[i]
             row_number == i + 1
             key == course_key(row, default_academic_year)
             registered ==
                 IF key \in Keys(acc.parsed) THEN acc
                 ELSE [acc EXCEPT !.parsed = Append(@, [key |-> key, row |-> row])]
         IN  IF CourseCSVRowErrors(row) # <<>>
             THEN [acc EXCEPT !.errors = @ \o RowErrors(row_number,
                                                        CourseCSVRowErrors(row))]
             ELSE IF to_time_slot_errors(row) # <<>>
             THEN [registered EXCEPT !.errors = @ \o RowErrors(row_number,
                                                        to_time_slot_errors(row))]
             ELSE ParseRows_stopping_at_rejected_row(rows, i + 1, default_academic_year,
                      [registered EXCEPT !.slots = Append(@, [key |-> key,
                                                              slot |-> row.slot])])

\* The first loop: acc.parsed lists the course keys in the order met, each
\* with its first row; acc.slots lists the converted slots with their key.
RECURSIVE ParseRows(_, _, _, _)
ParseRows(rows, i, default_academic_year, acc) ==
    IF i > Len(rows) THEN acc
    ELSE LET row == rows[i]
             row_number == i + 1
             key == course_key(row, default_academic_year)
             registered ==
                 IF key \in Keys(acc.parsed) THEN acc
                 ELSE [acc EXCEPT !.parsed = Append(@, [key |-> key, row |-> row])]
         IN  IF CourseCSVRowErrors(row) # <<>>
             THEN ParseRows(rows, i + 1, default_academic_year,
                      [acc EXCEPT !.errors = @ \o RowErrors(row_number,
                                                            CourseCSVRowErrors(row))])
             ELSE IF to_time_slot_errors(row) # <<>>
             THEN ParseRows(rows, i + 1, default_academic_year,
                      [registered EXCEPT !.errors = @ \o RowErrors(row_number,
                                                            to_time_slot_errors(row))])
             ELSE ParseRows(rows, i + 1, default_academic_year,
                      [registered EXCEPT !.slots = Append(@, [key |-> key,
                                                              slot |-> row.slot])])

temp_time_slots(slots, key) ==
    LET of_key == SelectSeq(slots, LAMBDA x : x.key = key)
    IN  [k \in 1..Len(of_key) |-> of_key[k].slot]

\* The second loop without the find_one for an existing course:
RECURSIVE StoreCourses_without_existing_check(_, _, _, _)
StoreCourses_without_existing_check(parsed, slots, i, acc) ==
    IF i > Len(parsed) THEN acc
    ELSE LET key == parsed[i].key
         IN  IF Cardinality(Inserted_courses(acc.courses)) >= Len(NewCourseIds)
             THEN StoreCourses_without_existing_check(parsed, slots, i + 1,
                      [acc EXCEPT !.errors = Append(@, [kind |-> "save failed", key |-> key])])
             ELSE StoreCourses_without_existing_check(parsed, slots, i + 1,
                      [acc EXCEPT
                          !.courses = insert_course(@,
                              StoredCourse(key[1], key[2], temp_time_slots(slots, key), TRUE)),
                          !.success = Append(@, key)])

\* The second loop: every parsed course not stored yet is inserted.
RECURSIVE StoreCourses(_, _, _, _)
StoreCourses(parsed, slots, i, acc) ==
    IF i > Len(parsed) THEN acc
    ELSE LET key == parsed[i].key
         IN  IF existing_course(acc.courses, key[1], key[2])
             THEN StoreCourses(parsed, slots, i + 1,
                      [acc EXCEPT !.errors = Append(@, [kind |-> "exists", key |-> key])])
             ELSE StoreCourses(parsed, slots, i + 1,
                      [acc EXCEPT
                          !.courses = insert_course(@,
                              StoredCourse(key[1], key[2], temp_time_slots(slots, key), TRUE)),
                          !.success = Append(@, key)])

\* import_courses_from_csv: the results dictionary and the course collection
ImportCourses(file, default_academic_year) ==
    IF ~file.decodable
    THEN [courses |-> courses, success |-> <<>>, errors |-> <<[kind |-> "unreadable"]>>]
    ELSE LET read == ParseRows(file.rows, 1, default_academic_year,
                               [parsed |-> <<>>, slots |-> <<>>, errors |-> <<>>])
         IN  StoreCourses(read.parsed, read.slots, 1,
                          [courses |-> courses, success |-> <<>>, errors |-> read.errors])

\* The dictionary import_courses_from_csv returns
ImportResults(success, errors) ==
    [handler |-> "import_courses_from_csv", success |-> success, errors |-> errors]

import_courses_from_csv(file, default_academic_year) ==
    LET result == ImportCourses(file, default_academic_year)
    IN  /\ courses' = result.courses
        /\ last_call' = ImportResults(result.success, result.errors)
        /\ UNCHANGED <<enrollments, settings, now, session>>
        /\ UNCHANGED adminVars
        /\ UNCHANGED slotVars
        /\ UNCHANGED checkerVars
        /\ UNCHANGED raceVars
        /\ UNCHANGED ctorVars

CatalogueCourseIds == {Some("c1"), Some("n1"), Some("c9")}

\* The files of the manager: those of at most one row, a course of two rows
\* and a file with a rejected row before an accepted one.
CatalogueFiles ==
    {f \in CSVFiles : Len(f.rows) <= 1}
    \cup {CSVFile(<<CSVRow("113-1", "MATH101", MonD1), CSVRow("", "MATH101", TueD1)>>),
          CSVFile(<<CSVRow("112-2", "ENG201", SatD0NoColon),
                    CSVRow("113-1", "MATH101", MonD1)>>)}

InitCatalogue ==
    /\ courses \in {<<>>, [c \in {"c1"} |-> StoredCourse("113-1", "MATH101", <<MonD1>>, TRUE)]}
    /\ enrollments = {}
    /\ settings = <<Setting("113-1", None, None, TRUE)>>
    /\ now = 1
    /\ session = Idle
    /\ last_call = NoCall
    /\ user_groups = Idle /\ csv_file \in CatalogueFiles
    /\ requests = Idle /\ fields = Idle /\ constructed = Idle
    /\ slot_a = Idle /\ slot_b = Idle /\ overlap_result = Idle
    /\ selected_course = Idle /\ enrolled_courses = Idle
    /\ current_term = Idle /\ conflict_reason = Idle

NextCatalogue ==
    \/ \E form \in AddForms : handle_add_new_course(form)
    \/ \E id \in CatalogueCourseIds, form \in EditForms : handle_save_edited_course(id, form)
    \/ \E ay \in DefaultAcademicYears : import_courses_from_csv(csv_file, ay)

SpecCatalogue == InitCatalogue /\ [][NextCatalogue]_vars

(***************************************************************************)
(* Properties of the course catalogue (checked under SpecCatalogue).       *)
(***************************************************************************)
UniqueKeys(cs) ==
    \A c \in DOMAIN cs :
        \A d \in DOMAIN cs \ {c} :
            \/ cs[c].academic_year # cs[d].academic_year
            \/ cs[c].course_code # cs[d].course_code

RejectedAsDuplicate(call) ==
    \/ call.handler = "handle_add_new_course" /\ call.message = "course exists"
    \/ call.handler = "handle_save_edited_course" /\ call.message = "course code in use"

StoredCatalogues ==
    {<<>>,
     [c \in {"c1"} |-> StoredCourse("113-1", "MATH101", <<MonD1>>, TRUE)],
     [c \in {"c1"} |-> StoredCourse("112-2", "ENG201", <<>>, TRUE)]}

InitImport ==
    /\ courses \in StoredCatalogues
    /\ enrollments = {}
    /\ settings = <<Setting("113-1", None, None, TRUE)>>
    /\ now = 1
    /\ session = Idle
    /\ last_call = NoCall
    /\ user_groups = Idle /\ csv_file \in CSVFiles
    /\ requests = Idle /\ fields = Idle /\ constructed = Idle
    /\ slot_a = Idle /\ slot_b = Idle /\ overlap_result = Idle
    /\ selected_course = Idle /\ enrolled_courses = Idle
    /\ current_term = Idle /\ conflict_reason = Idle

NextImport ==
    \E ay \in DefaultAcademicYears : import_courses_from_csv(csv_file, ay)

SpecImport == InitImport /\ [][NextImport]_vars

(***************************************************************************)
(* Properties of the import (checked under SpecImport).                    *)
(***************************************************************************)
DefaultAcademicYear == CHOOSE ay \in DefaultAcademicYears : TRUE

RowFailsValidation(row) ==
    CourseCSVRowErrors(row) # <<>> \/ to_time_slot_errors(row) # <<>>

RowsOf(key) ==
    SelectSeq(csv_file.rows, LAMBDA row : course_key(row, DefaultAcademicYear) = key)

\* the courses of the file all of whose rows are valid
ValidCourseKeys ==
    {key \in {course_key(csv_file.rows[k], DefaultAcademicYear) :
                 k \in 1..Len(csv_file.rows)} :
        \A k \in 1..Len(RowsOf(key)) : ~RowFailsValidation(RowsOf(key)[k])}

SlotsInFileOrder(key) == [k \in 1..Len(RowsOf(key)) |-> RowsOf(key)[k].slot]

EveryFailedRowNamed(call) ==
    \A k \in 1..Len(csv_file.rows) :
        RowFailsValidation(csv_file.rows[k])
        => \E j \in 1..Len(call.errors) :
              call.errors[j].kind = "row" /\ call.errors[j].row = k + 1

StoredWithAllSlots(cs, key) ==
    \E c \in DOMAIN cs :
        /\ cs[c].academic_year = key[1]
        /\ cs[c].course_code = key[2]
        /\ cs[c].time_slots = SlotsInFileOrder(key)

\* C25 as stated: a row that fails validation adds an error entry naming the
\* row, and after the import every course of the file all of whose rows are
\* valid is stored with the slots of all its rows in file order.
C25_ValidCoursesImported ==
    [][(last_call'.handler = "import_courses_from_csv" /\ csv_file.decodable)
       => /\ EveryFailedRowNamed(last_call')
          /\ \A key \in ValidCourseKeys : StoredWithAllSlots(courses', key)]_vars

\* C25, amended: a row that fails validation adds an error entry naming the
\* row, and every course of the file all of whose rows are valid and that was
\* not stored before the import is stored with the slots of all its rows in
\* file order.
C25_ValidNewCoursesImported ==
    [][(last_call'.handler = "import_courses_from_csv" /\ csv_file.decodable)
       => /\ EveryFailedRowNamed(last_call')
          /\ \A key \in ValidCourseKeys :
                ~existing_course(courses, key[1], key[2])
                => StoredWithAllSlots(courses', key)]_vars

\* a file of three rows, a rejected row between the two rows of one course,
\* has been imported, and the course is stored with both slots
C25_Witness ==
    /\ Len(csv_file.rows) = 3
    /\ RowFailsValidation(csv_file.rows[2])
    /\ ~RowFailsValidation(csv_file.rows[1])
    /\ ~RowFailsValidation(csv_file.rows[3])
    /\ last_call.handler = "import_courses_from_csv"
    /\ Len(last_call.success) = 1
    /\ \E c \in DOMAIN courses : Len(courses[c].time_slots) = 2

====
